---------------------------- MODULE Spec2Model ----------------------------
(***************************************************************************)
(* Chunked, resumable bulk transfer and the batched update queue of the    *)
(* Excel add-in (excel-add-in/src/utils/chunkingUtils.ts, the sync code    *)
(* that calls it, and handleComplexCellChange.ts).                         *)
(*                                                                         *)
(* Four specifications share the module:                                   *)
(*   SpecPure   the pure helpers chunkRangeValues and                      *)
(*              calculateOptimalChunkSize applied to bounded inputs        *)
(*   SpecRetry  one call of withExponentialBackoff                         *)
(*   Spec       the chunked transfer engine (processRangeInChunks and      *)
(*              processItemsInChunks), the progress store, crash + resume  *)
(*   SpecQueue  queueUpdate / processPendingUpdates with the debounce      *)
(*              timer, concurrent flushes and the sink                     *)
(***************************************************************************)
EXTENDS Integers, Sequences, FiniteSets, TLC

(***************************************************************************)
(* Program constants (CHUNKING_CONFIG and the queue's constants).          *)
(***************************************************************************)
DEFAULT_CHUNK_SIZE == 250
MIN_CHUNK_SIZE == 50
MAX_CHUNK_SIZE == 500
MAX_RETRIES == 3
INITIAL_RETRY_DELAY == 1000
MAX_RETRY_DELAY == 10000
ESTIMATED_BYTES_PER_CELL == 50
MAX_PAYLOAD_SIZE_BYTES == 5 * 1024 * 1024
UPDATE_BATCH_DELAY == 500
CHUNK_SIZE == 50
MAX_CONCURRENT_OPERATIONS == 3

(***************************************************************************)
(* Bounds of the model.                                                    *)
(***************************************************************************)
MaxRows == 3           \* longest grid given to the pure helpers
MaxEngineRows == 2     \* longest of the small inputs of the engine
MaxChunkSize == 2      \* largest explicit options.chunkSize
MaxColumns == 2200     \* widest grid shape given to calculateOptimalChunkSize
MaxTotalRows == 3      \* totalRows arguments given to calculateOptimalChunkSize
MaxMaxRetries == 4     \* largest maxRetries argument
MaxCalls == 4          \* calls of applyFormulas / applyFormulasEnhanced
MaxNow == 1            \* the clock readings Date.now() returns are 0..MaxNow
MaxSubBatches == 2     \* full sub-batches of the longest queue given to a flush
MaxEngineRetries == 1  \* largest options.maxRetries given to the engine
MaxStoredChunks == 3    \* chunk count of a record an earlier operation left
MaxStartRow == 2       \* largest row of startCell
MaxEdits == 2          \* edits accepted by queueUpdate per behaviour
MaxFailures == 4        \* sink calls that fail per behaviour
TickMs == 500          \* granularity of the queue's clock
MaxProducts == 2       \* products in the table a change event arrives for

(***************************************************************************)
(* An optional argument is the empty set when it is not supplied and {v}   *)
(* when it is v; a missing record is the record NoProgress.                *)
(***************************************************************************)
Omitted == {}
Given(v) == {v}
ValueOr(option, default) == IF option = {} THEN default ELSE CHOOSE v \in option : TRUE

NoProgress == [operationId |-> "", totalChunks |-> 0, completedChunks |-> 0,
               status |-> "none"]
Pending == [kind |-> "pending"]
NotResumed == [via |-> "none", completed |-> 0 - 1, totalChunks |-> 0, chunkSize |-> 0]

Min(a, b) == IF a < b THEN a ELSE b
Max(a, b) == IF a > b THEN a ELSE b

VARIABLES
    \* ---- SpecPure
    p_fn,          \* which helper is applied: "chunk" or "size"
    p_values,      \* chunkRangeValues: the grid (sequence of rows)
    p_chunkSize,   \* chunkRangeValues: chunkSize
    p_totalRows,   \* calculateOptimalChunkSize: totalRows
    p_columns,     \* calculateOptimalChunkSize: columnsPerRow
    p_pc,          \* "call" | "ret" | "hung"
    p_out,         \* the returned value
    \* ---- SpecRetry: one call withExponentialBackoff(operation, maxRetries)
    r_maxRetries,  \* the maxRetries argument
    r_maxDelay,    \* the maxDelay argument
    r_pc,          \* "start" | "operation" | "waiting" | "resolved" | "rejected"
    r_retries,     \* let retries
    r_delay,       \* let delay
    r_invocations, \* number of times operation() was invoked so far
    r_waits,       \* number of backoff waits started so far
    r_thrown,      \* errors thrown by operation(), in order (error k = k-th invocation's)
    r_outcome,     \* Pending, or how the returned promise settled
    \* ---- Spec: the chunked transfer engine
    e_kind,        \* "range" (processRangeInChunks) | "items" (processItemsInChunks
                   \*   as called by syncLargeDataset)
    e_values,      \* the grid / the products: row r of the input is e_values[r]
    e_columns,     \* values[0].length
    e_startRow,    \* the row of startCell ("A2" has row 2); "range" only
    e_chunkSize,   \* options.chunkSize of the caller (Omitted when not supplied)
    e_maxRetries,  \* options.maxRetries of the caller (Omitted when not supplied)
    e_pc,          \* "idle" | "writing" | "written" | "backoff" | "resolved" |
                   \*   "rejected" | "hung" | "crashed"
    e_actual,      \* actualChunkSize of the running invocation
    e_progress,    \* the invocation's local progress object
    e_i,           \* the loop index i
    e_retries,     \* retries of the running withExponentialBackoff
    sheet,         \* worksheet: sheet row number -> the grid row it holds
    store,         \* sessionStorage: operationId -> persisted progress or NoProgress
    \* history of the running invocation
    h_start,       \* startChunk
    h_lastAttempt, \* chunk index of the latest write attempt (-1: none yet)
    h_inflight,    \* chunk indices whose sink write is in flight
    h_written,     \* chunk indices whose write succeeded
    h_rows,        \* input rows (indices into e_values) whose write succeeded
    h_onProgress,  \* the completedChunks values passed to onProgress, in order
    h_saved,       \* the record of the latest saveProgress (NoProgress: none yet)
    \* ---- SpecQueue: the batched update queue of handleComplexCellChange.ts
    pendingUpdates,   \* the module-level array; an edit is its arrival number
    updateTimeoutId,  \* {} (null) or {t}: the stored timer handle
    q_timers,         \* armed timers: handle -> milliseconds left
    q_flush,          \* executions of processPendingUpdates, one per fired
                      \*   timer: handle -> [pc, retries, delay, wait, update, k]
    q_accepted,       \* number of edits queueUpdate accepted so far
    q_failures,       \* number of sink calls that failed so far
    \* history
    q_age,            \* edit -> milliseconds since it was queued (capped)
    q_quiet,          \* edits queued while no flush was in flight
    q_carried,        \* edits some sink call (single or batch) has carried
    q_seen,           \* handle -> the pendingUpdates its flush saw at its start
    q_early,          \* flushes started sooner than the delay after the last edit
    q_log,            \* handle -> the sink calls of its flush: the number of
                      \*   batch calls, the edits they carried, the batch call
                      \*   that fell back to single-item calls (0: none), and
                      \*   the edits sent by single-item calls in that order
    storeThrows,   \* whether sessionStorage is one whose getItem, setItem and
                   \*   removeItem can throw (quota, storage denied)
    h_resumeFromChunk, \* options.resumeFromChunk of the running invocation
    h_loadedTotal, \* totalChunks of the record loadProgress returned to the
                   \*   running invocation (0: it returned null)
    h_passed,      \* the record of the latest onProgress call of the running
                   \*   invocation (NoProgress: none yet)
    h_done,        \* {} until an invocation returned successfully, then {[sheet,
                   \*   chunkSize, start, again]}: the worksheet at the first
                   \*   return, the chunk size and start chunk of that invocation,
                   \*   and whether an invocation returned after it
    h_resumed      \* NotResumed, or, when this invocation was given the persisted
                   \*   completedChunks as resumeFromChunk: who called, the persisted
                   \*   completedChunks, and the interrupted invocation's chunk count
                   \*   and chunk size
    , \* ---- SpecChange: one worksheet change event and its handler
    c_handler,     \* the handler registered on the sheet
    c_products,    \* number of products in the table
    c_belowId,     \* what column A of the changed row holds when the row is
                   \*   below the table
    c_shape,       \* <<rows, columns>> of the changed range
    c_rowIndex,    \* 0-based row index of the changed range
    c_colIndex,    \* 0-based column index of the changed range
    c_newValue,    \* changedRange.values[0][0]
    c_pc,          \* "changed": the event is raised, "handled": the handler returned
    c_status,      \* the last updateStatus message ("none": none)
    c_queued,      \* the edits given to queueUpdate
    c_posted       \* the bodies of POST /update-cell
    , \* ---- SpecFormulas: the calls of applyFormulas and applyFormulasEnhanced
    activeOperations, \* the module-level Set of operation ids
    a_now,            \* what Date.now() returns
    a_calls           \* call -> [pc, fn, now]: "none" | "running" | "rejected" |
                      \*   "returned" | "cached" | "threw", the function called
                      \*   and the clock reading in its operationId
    , \* ---- SpecFlush: one processPendingUpdates over more than CHUNK_SIZE edits
    f_pending,        \* pendingUpdates when the timer fires; an edit is its
                      \*   arrival number
    f_refused,        \* the edits the server does not apply (success: false)
    f_broken,         \* the edits whose /update-cell2 call answers 500
    f_pc,             \* "timer" | "batch" | "single" | "done"
    f_chunks,         \* const chunks
    f_i,              \* the loop index i of the loop over chunks
    f_retries,        \* retries of the running withExponentialBackoff
    f_item,           \* index in the chunk of the update the sequential loop is at
    f_seqCount,       \* successCount of processSequentialUpdatesWithRetry
    f_successCount,   \* let successCount
    f_totalProcessed, \* let totalProcessed
    \* history
    f_sent,           \* the edits in the body of the request in flight
    f_applied,        \* number of edits the server has reported as applied
    f_failed          \* indices of the chunks whose retries were used up

pureVars == <<p_fn, p_values, p_chunkSize, p_totalRows, p_columns, p_pc, p_out>>

retryVars == <<r_maxRetries, r_maxDelay, r_pc, r_retries, r_delay, r_invocations, r_waits,
               r_thrown, r_outcome>>

engineVars == <<e_kind, e_values, e_columns, e_startRow, e_chunkSize, e_maxRetries,
                e_pc, e_actual, e_progress, e_i, e_retries, sheet, store,
                h_start, h_lastAttempt, h_inflight, h_written, h_rows,
                h_onProgress, h_saved, h_resumed, h_done, storeThrows,
                h_resumeFromChunk, h_loadedTotal, h_passed>>

queueVars == <<pendingUpdates, updateTimeoutId, q_timers, q_flush, q_accepted,
               q_failures,
               q_age, q_quiet, q_carried, q_seen, q_early, q_log>>

changeVars == <<c_handler, c_products, c_belowId, c_shape, c_rowIndex, c_colIndex,
                c_newValue, c_pc, c_status, c_queued, c_posted>>

formulaVars == <<activeOperations, a_now, a_calls>>

flushVars == <<f_pending, f_refused, f_broken, f_pc, f_chunks, f_i, f_retries, f_item,
               f_seqCount, f_successCount, f_totalProcessed, f_sent, f_applied,
               f_failed>>

vars == <<pureVars, retryVars, engineVars, queueVars, changeVars, formulaVars,
          flushVars>>

notPure == <<retryVars, engineVars, queueVars, changeVars, formulaVars,
    flushVars>>
notRetry == <<pureVars, engineVars, queueVars, changeVars, formulaVars,
    flushVars>>
notEngine == <<pureVars, retryVars, queueVars, changeVars, formulaVars,
    flushVars>>
notQueue == <<pureVars, retryVars, engineVars, changeVars, formulaVars,
    flushVars>>
notChange == <<pureVars, retryVars, engineVars, queueVars, formulaVars,
    flushVars>>

(***************************************************************************)
(* Array.prototype.slice(start, end) on a sequence (0-based indices,       *)
(* negative indices count from the end, both clamped to the length).       *)
(***************************************************************************)
sliceIndex(len, k) == IF k < 0 THEN Max(len + k, 0) ELSE Min(k, len)

\* a slice that ends one element early
slice_DropsLast(arr, start, end) ==
    LET from == sliceIndex(Len(arr), start)
        to == sliceIndex(Len(arr), end) - 1
    IN  IF from >= to THEN <<>> ELSE SubSeq(arr, from + 1, to)

slice(arr, start, end) ==
    LET from == sliceIndex(Len(arr), start)
        to == sliceIndex(Len(arr), end)
    IN  IF from >= to THEN <<>> ELSE SubSeq(arr, from + 1, to)

(***************************************************************************)
(* chunkRangeValues: for (i = 0; i < values.length; i += chunkSize)        *)
(*                     chunks.push(values.slice(i, i + chunkSize))         *)
(* The loop ends only if i reaches values.length: with chunkSize <= 0 and  *)
(* a non-empty grid it never does.                                         *)
(***************************************************************************)
chunkLoopTerminates(values, chunkSize) == Len(values) = 0 \/ chunkSize > 0

RECURSIVE chunkLoop(_, _, _, _)
chunkLoop(values, chunkSize, i, chunks) ==
    IF i < Len(values)
    THEN chunkLoop(values, chunkSize, i + chunkSize,
                   Append(chunks, slice(values, i, i + chunkSize)))
    ELSE chunks

chunkRangeValues(values, chunkSize) == chunkLoop(values, chunkSize, 0, <<>>)

(***************************************************************************)
(* calculateOptimalChunkSize.  maxCellsPerChunk is the real number         *)
(* 5242880 / 50 = 104857.6; floor(104857.6 / columnsPerRow) equals         *)
(* floor(5242880 / (50 * columnsPerRow)) for every integer columnsPerRow.  *)
(***************************************************************************)
rowsPerChunk(columnsPerRow) ==
    MAX_PAYLOAD_SIZE_BYTES \div (ESTIMATED_BYTES_PER_CELL * columnsPerRow)

\* the computation without its lower clamp
calculateOptimalChunkSize_NoMinimum(totalRows, columnsPerRow) ==
    Min(rowsPerChunk(columnsPerRow), MAX_CHUNK_SIZE)

calculateOptimalChunkSize(totalRows, columnsPerRow) ==
    Min(Max(rowsPerChunk(columnsPerRow), MIN_CHUNK_SIZE), MAX_CHUNK_SIZE)

(***************************************************************************)
(* estimatePayloadSize of a grid of `rows` rows of `columns` cells.        *)
(***************************************************************************)
estimatePayloadSize(rows, columns) == rows * columns * ESTIMATED_BYTES_PER_CELL

RECURSIVE Concat(_)
Concat(chunks) ==
    IF chunks = <<>> THEN <<>> ELSE Head(chunks) \o Concat(Tail(chunks))

(***************************************************************************)
(* SpecPure: inputs drawn at Init, one action per helper.                  *)
(***************************************************************************)
RowValues == {"a", "b"}

SeqUpTo(S, n) == UNION {[1..k -> S] : k \in 0..n}

PureGrids == SeqUpTo(RowValues, MaxRows)

PureInit ==
    /\ p_pc = "call"
    /\ p_out = <<>>
    /\ \/ /\ p_fn = "chunk"
          /\ p_values \in PureGrids
          /\ p_chunkSize \in (0 - 1)..MaxChunkSize
          /\ p_totalRows = 0
          /\ p_columns = 0
       \/ /\ p_fn = "size"
          /\ p_values = <<>>
          /\ p_chunkSize = 0
          /\ p_totalRows \in 1..MaxTotalRows
          /\ p_columns \in 1..MaxColumns

ChunkRangeValuesCall ==
    /\ p_fn = "chunk"
    /\ p_pc = "call"
    /\ chunkLoopTerminates(p_values, p_chunkSize)
    /\ p_out' = chunkRangeValues(p_values, p_chunkSize)
    /\ p_pc' = "ret"
    /\ UNCHANGED <<p_fn, p_values, p_chunkSize, p_totalRows, p_columns>>
    /\ UNCHANGED notPure

ChunkRangeValuesHang ==
    /\ p_fn = "chunk"
    /\ p_pc = "call"
    /\ ~chunkLoopTerminates(p_values, p_chunkSize)
    /\ p_pc' = "hung"
    /\ UNCHANGED <<p_fn, p_values, p_chunkSize, p_totalRows, p_columns, p_out>>
    /\ UNCHANGED notPure

CalculateOptimalChunkSizeCall ==
    /\ p_fn = "size"
    /\ p_pc = "call"
    /\ p_out' = calculateOptimalChunkSize(p_totalRows, p_columns)
    /\ p_pc' = "ret"
    /\ UNCHANGED <<p_fn, p_values, p_chunkSize, p_totalRows, p_columns>>
    /\ UNCHANGED notPure

PureNext ==
    \/ ChunkRangeValuesCall
    \/ ChunkRangeValuesHang
    \/ CalculateOptimalChunkSizeCall

(***************************************************************************)
(* withExponentialBackoff.                                                 *)
(*   catch (error) { retries++; if (retries > maxRetries) throw error ...  *)
(*   delay = Math.min(delay * 2 * (0.9 + Math.random() * 0.2), maxDelay)   *)
(* Math.random() is in [0, 1): the jitter factor is drawn from             *)
(* [0.90, 1.10), here in percent.                                          *)
(***************************************************************************)
\* a retry budget that is one invocation short
retriesExhausted_AtLimit(retries, maxRetries) == retries >= maxRetries

retriesExhausted(retries, maxRetries) == retries > maxRetries

JitterPercent == {90, 100, 109}

nextDelay(delay, maxDelay, jitter) == Min((delay * 2 * jitter) \div 100, maxDelay)

(***************************************************************************)
(* SpecRetry: the operation settles either way at every invocation; the    *)
(* k-th invocation, when it fails, throws the error k.                     *)
(***************************************************************************)
RetryInit ==
    /\ r_maxRetries \in 0..MaxMaxRetries
    /\ r_pc = "start"
    /\ r_retries = 0
    \* initialDelay and maxDelay: the defaults, or a value the caller passes
    /\ r_delay \in {INITIAL_RETRY_DELAY, 200}
    /\ r_maxDelay \in {MAX_RETRY_DELAY, 500}
    /\ r_invocations = 0
    /\ r_waits = 0
    /\ r_thrown = <<>>
    /\ r_outcome = Pending

\* let retries = 0; let delay = initialDelay; first `await operation()`
BackoffCall ==
    /\ r_pc = "start"
    /\ r_pc' = "operation"
    /\ r_invocations' = r_invocations + 1
    /\ UNCHANGED <<r_maxRetries, r_maxDelay, r_retries,
                 r_delay, r_waits, r_thrown, r_outcome>>
    /\ UNCHANGED notRetry

\* a loop that calls the operation once more after it succeeded
OperationResolves_InvokesAgain ==
    /\ r_pc = "operation"
    /\ r_pc' = "resolved"
    /\ r_outcome' = [kind |-> "resolved", value |-> r_invocations]
    /\ r_invocations' = r_invocations + 1
    /\ UNCHANGED <<r_maxRetries, r_maxDelay, r_retries,
                 r_delay, r_waits, r_thrown>>
    /\ UNCHANGED notRetry

\* return await operation()
OperationResolves ==
    /\ r_pc = "operation"
    /\ r_pc' = "resolved"
    /\ r_outcome' = [kind |-> "resolved", value |-> r_invocations]
    /\ UNCHANGED <<r_maxRetries, r_maxDelay, r_retries,
                 r_delay, r_invocations, r_waits, r_thrown>>
    /\ UNCHANGED notRetry

\* catch (error): retries++, then throw or start the backoff wait
OperationRejects ==
    /\ r_pc = "operation"
    /\ r_thrown' = Append(r_thrown, r_invocations)
    /\ r_retries' = r_retries + 1
    /\ IF retriesExhausted(r_retries + 1, r_maxRetries)
       THEN /\ r_pc' = "rejected"
            /\ r_outcome' = [kind |-> "rejected", error |-> r_invocations]
            /\ UNCHANGED r_waits
       ELSE /\ r_pc' = "waiting"
            /\ r_waits' = r_waits + 1
            /\ UNCHANGED r_outcome
    /\ UNCHANGED <<r_maxRetries, r_maxDelay, r_delay,
                 r_invocations>>
    /\ UNCHANGED notRetry

\* the setTimeout(resolve, delay) fires: new delay, next `await operation()`
BackoffWaitEnds ==
    /\ r_pc = "waiting"
    /\ \E jitter \in JitterPercent :
          r_delay' = nextDelay(r_delay, r_maxDelay, jitter)
    /\ r_pc' = "operation"
    /\ r_invocations' = r_invocations + 1
    /\ UNCHANGED <<r_maxRetries, r_maxDelay, r_retries,
                 r_waits, r_thrown, r_outcome>>
    /\ UNCHANGED notRetry

RetryNext ==
    \/ BackoffCall
    \/ OperationResolves
    \/ OperationRejects
    \/ BackoffWaitEnds

(***************************************************************************)
(* The progress tracker over sessionStorage.  A progress object is         *)
(* [operationId, totalChunks, completedChunks, status]; the two timestamps *)
(* are left out.                                                           *)
(***************************************************************************)
OperationId == "op"

\* the operationId of the running invocation and that of another operation
OperationIds == {OperationId, "other"}

\* a saveProgress whose setItem is lost
saveProgress_Loses(st, progress) == st

saveProgress(st, progress) == [st EXCEPT ![progress.operationId] = progress]

loadProgress(st, operationId) == st[operationId]

\* a removal that misses the entry
clearProgress_MissesKey(st, operationId) == st

\* a clearProgress that empties sessionStorage
clearProgress_ClearsAll(st, operationId) == [id \in DOMAIN st |-> NoProgress]

clearProgress(st, operationId) == [st EXCEPT ![operationId] = NoProgress]

\* a tracker that counts a chunk as completed when it is created
newProgress_StartsAtOne(operationId, totalChunks) ==
    [operationId |-> operationId, totalChunks |-> totalChunks,
     completedChunks |-> 1, status |-> "in_progress"]

newProgress(operationId, totalChunks) ==
    [operationId |-> operationId, totalChunks |-> totalChunks,
     completedChunks |-> 0, status |-> "in_progress"]

\* the record adopted as it was loaded, totalChunks included
withTotalChunks_KeepsLoaded(progress, totalChunks) == progress

\* progress.totalChunks = chunks.length
withTotalChunks(progress, totalChunks) == [progress EXCEPT !.totalChunks = totalChunks]

\* an updateProgress that records the index of the chunk, not the count
updatedProgress_OneBehind(progress, completedChunks, status) ==
    [progress EXCEPT !.completedChunks = completedChunks - 1,
                     !.status = ValueOr(status, @)]

\* an updateProgress that adds the chunk to the record's count
updatedProgress_AddsToCount(progress, completedChunks, status) ==
    [progress EXCEPT !.completedChunks = @ + 1,
                     !.status = ValueOr(status, @)]

\* updateProgress(progress, completedChunks, status?) without the save
updatedProgress(progress, completedChunks, status) ==
    [progress EXCEPT !.completedChunks = completedChunks,
                     !.status = ValueOr(status, @)]

(***************************************************************************)
(* Option handling.                                                        *)
(*  processRangeInChunks: chunkSize = DEFAULT_CHUNK_SIZE when undefined,   *)
(*    then actualChunkSize = chunkSize || calculateOptimalChunkSize(...)   *)
(*  syncLargeDataset: chunkSize = options.chunkSize || min(max(floor(      *)
(*    MAX_PAYLOAD / (HEADERS.length * BYTES_PER_CELL)), MIN), MAX), always *)
(*    passed on to processItemsInChunks                                    *)
(***************************************************************************)
COMPLEX_PRODUCT_HEADERS_length == 50

rangeActualChunkSize(chunkSizeOption, values, columns) ==
    LET chunkSize == ValueOr(chunkSizeOption, DEFAULT_CHUNK_SIZE)
    IN  IF chunkSize = 0 THEN calculateOptimalChunkSize(Len(values), columns)
        ELSE chunkSize

syncLargeDatasetChunkSize(chunkSizeOption) ==
    IF ValueOr(chunkSizeOption, 0) = 0
    THEN Min(Max(MAX_PAYLOAD_SIZE_BYTES
                   \div (COMPLEX_PRODUCT_HEADERS_length * ESTIMATED_BYTES_PER_CELL),
                 MIN_CHUNK_SIZE), MAX_CHUNK_SIZE)
    ELSE ValueOr(chunkSizeOption, 0)

actualChunkSize(kind, chunkSizeOption, values, columns) ==
    IF kind = "range" THEN rangeActualChunkSize(chunkSizeOption, values, columns)
    ELSE syncLargeDatasetChunkSize(chunkSizeOption)

\* an engine that allows one retry more than the caller asked for
effectiveMaxRetries_OneMore(maxRetriesOption) ==
    ValueOr(maxRetriesOption, MAX_RETRIES) + 1

effectiveMaxRetries(maxRetriesOption) ==
    ValueOr(maxRetriesOption, MAX_RETRIES)

\* an invocation that ignores resumeFromChunk
startChunkOf_FromZero(resumeFromChunk, totalChunks) == 0

\* an invocation that starts where the persisted record says
startChunkOf_FromPersisted(resumeFromChunk, totalChunks) ==
    Max(0, Min(store[OperationId].completedChunks, totalChunks - 1))

startChunkOf(resumeFromChunk, totalChunks) ==
    Max(0, Min(resumeFromChunk, totalChunks - 1))

(***************************************************************************)
(* Where a chunk lands.                                                    *)
(*  processRangeInChunks: chunkStartRow = i * actualChunkSize + 1; of      *)
(*    startCell only the column letters are used.                          *)
(*  syncLargeDataset's callback: startRow = chunkIndex * chunkSize + 2.    *)
(*    A chunk of more than 100 rows is handed to a nested                  *)
(*    processRangeInChunks(rows, `A${startRow}`) with default options; its *)
(*    own retries and its progress record (another operationId) are not    *)
(*    modelled, it is one sink call that succeeds or fails.                *)
(***************************************************************************)
HeaderRow == <<"header", 0>>

EmptyRow == <<"empty", 0>>

chunkStartRow(i, chunkSize, startRow) == i * chunkSize + 1

itemsStartRow(chunkIndex, chunkSize) == chunkIndex * chunkSize + 2

\* a write that appends below the rows already used instead of overwriting
writeRows_Appends(sh, first, rows) ==
    LET used == {r \in DOMAIN sh : r >= first}
        from == first + Cardinality(used)
        target == from..(from + Len(rows) - 1)
    IN  [r \in (DOMAIN sh) \cup target |->
            IF r \in target THEN rows[r - from + 1] ELSE sh[r]]

\* range.values = chunk on the rows first .. first + chunk.length - 1
writeRows(sh, first, rows) ==
    LET target == first..(first + Len(rows) - 1)
    IN  [r \in (DOMAIN sh) \cup target |->
            IF r \in target THEN rows[r - first + 1] ELSE sh[r]]

cellAt(sh, r) == IF r \in DOMAIN sh THEN sh[r] ELSE EmptyRow

\* processRangeInChunks writing chunk i of the grid
rangeWrite(sh, chunk, i, chunkSize, startRow) ==
    writeRows(sh, chunkStartRow(i, chunkSize, startRow), chunk)

\* a whole successful processRangeInChunks(rows, startCell) with the default
\* options, as the callback of syncLargeDataset calls it
RECURSIVE nestedRangeWrite(_, _, _, _)
nestedRangeWrite(sh, subChunks, j, startRow) ==
    IF j >= Len(subChunks) THEN sh
    ELSE nestedRangeWrite(
             rangeWrite(sh, subChunks[j + 1], j, DEFAULT_CHUNK_SIZE, startRow),
             subChunks, j + 1, startRow)

\* the callback of syncLargeDataset writing the rows of product chunk chunkIndex
itemsWrite(sh, rowsChunk, chunkIndex, chunkSize) ==
    LET startRow == itemsStartRow(chunkIndex, chunkSize)
    IN  IF Len(rowsChunk) > 100
        THEN nestedRangeWrite(sh, chunkRangeValues(rowsChunk, DEFAULT_CHUNK_SIZE),
                              0, startRow)
        ELSE writeRows(sh, startRow, rowsChunk)

sinkWrite(kind, sh, chunk, i, chunkSize, startRow) ==
    IF kind = "range" THEN rangeWrite(sh, chunk, i, chunkSize, startRow)
    ELSE itemsWrite(sh, chunk, i, chunkSize)

Chunks == chunkRangeValues(e_values, e_actual)

\* the input rows (indices into e_values) that chunk i holds
rowsOfChunk(i, chunkSize, total) ==
    {r \in 1..total : r > i * chunkSize /\ r <= (i + 1) * chunkSize}

(***************************************************************************)
(* Spec: the engine.  Init draws the caller's input; the operationId is    *)
(* always supplied.  Row r of the input is <<"row", r>>: a misplaced row   *)
(* shows on the sheet.                                                     *)
(***************************************************************************)
MkRows(n) == [r \in 1..n |-> <<"row", r>>]

ChunkSizeOptions == {Omitted} \cup {Given(c) : c \in (0 - 1)..MaxChunkSize}

MaxRetriesOptions == {Given(m) : m \in 0..MaxEngineRetries}

\* what an invocation resumes from, when resumeFromChunk is the persisted
\* completedChunks of an unfinished record
resumedFrom(via, resumeFromChunk) ==
    LET persisted == loadProgress(store, OperationId)
    IN  IF /\ persisted # NoProgress
           /\ persisted.status # "completed"
           /\ resumeFromChunk = persisted.completedChunks
        THEN [via |-> via, completed |-> persisted.completedChunks,
              totalChunks |-> Len(Chunks), chunkSize |-> e_actual]
        ELSE NotResumed

ResumeFromChunkOptions == (0 - 1)..(MaxEngineRows + 1)

EngineInputs ==
    [kind : {"range"}, rows : 0..MaxEngineRows, columns : {2}, startRow : 1..MaxStartRow,
     chunkSize : ChunkSizeOptions, maxRetries : MaxRetriesOptions]
    \cup
    [kind : {"items"}, rows : 0..MaxEngineRows, columns : {COMPLEX_PRODUCT_HEADERS_length},
     startRow : {2}, chunkSize : ChunkSizeOptions, maxRetries : MaxRetriesOptions]
    \cup
    \* the grid of 1000 rows and 10 columns, chunk size left to the engine
    [kind : {"range"}, rows : {1000}, columns : {10}, startRow : {1},
     chunkSize : {Omitted, Given(0)}, maxRetries : {Given(0)}]
    \cup
    \* syncLargeDataset() of 1200 products: 3 chunks of the default chunk size
    [kind : {"items"}, rows : {1200}, columns : {COMPLEX_PRODUCT_HEADERS_length},
     startRow : {2}, chunkSize : {Omitted}, maxRetries : {Omitted}]

\* What sessionStorage holds for the operationId when the caller's first call
\* is made: nothing, or the record an earlier, unfinished operation with the
\* same operationId (and whatever data it had) left behind.  Such a record is
\* in_progress with completedChunks < totalChunks: a completed record is
\* removed in the same synchronous step that saves it.
StoredAtStart ==
    {NoProgress} \cup
    UNION {{[operationId |-> OperationId, totalChunks |-> t, completedChunks |-> c,
             status |-> "in_progress"] : c \in 0..(t - 1)} : t \in 1..MaxStoredChunks}

EngineInit ==
    /\ \E in \in EngineInputs :
         /\ e_kind = in.kind
         /\ e_values = MkRows(in.rows)
         /\ e_columns = in.columns
         /\ e_startRow = in.startRow
         /\ e_chunkSize = in.chunkSize
         /\ e_maxRetries = in.maxRetries
         \* syncData2 writes the header row before it calls the engine at "A2"
         /\ sheet = IF in.startRow > 1 THEN [r \in {1} |-> HeaderRow] ELSE <<>>
    /\ e_pc = "idle"
    /\ e_actual = 0
    /\ e_progress = NoProgress
    /\ e_i = 0
    /\ e_retries = 0
    \* a record left behind is explored with the small inputs
    /\ \E left \in StoredAtStart :
         /\ left # NoProgress => Len(e_values) <= MaxEngineRows
         \* the other operation is under way and has persisted its progress
         /\ store = [id \in OperationIds |->
                       IF id = OperationId THEN left
                       ELSE [operationId |-> id, totalChunks |-> MaxStoredChunks,
                             completedChunks |-> 1, status |-> "in_progress"]]
    \* a sessionStorage that can throw is explored with the small grids written
    \* at row 1 without retries, and no record left behind
    /\ storeThrows \in IF /\ e_kind = "range" /\ e_startRow = 1
                           /\ e_maxRetries = Given(0)
                           /\ Len(e_values) <= MaxEngineRows
                           /\ store[OperationId] = NoProgress
                        THEN BOOLEAN ELSE {FALSE}
    /\ h_start = 0
    /\ h_lastAttempt = 0 - 1
    /\ h_inflight = {}
    /\ h_written = {}
    /\ h_rows = {}
    /\ h_onProgress = <<>>
    /\ h_saved = NoProgress
    /\ h_resumed = NotResumed
    /\ h_done = {}
    /\ h_resumeFromChunk = 0
    /\ h_loadedTotal = 0
    /\ h_passed = NoProgress

\* store functions without their catch block
storeErrorEscapes_NoCatch(throws) == throws

\* the outcomes a sessionStorage call can have: FALSE it works, TRUE it throws
StoreCallThrows == IF storeThrows THEN BOOLEAN ELSE {FALSE}

\* saveProgress, loadProgress and clearProgress wrap the sessionStorage call in
\* try { ... } catch (error) { console.warn(...) }: an exception it throws
\* never leaves them
storeErrorEscapes(throws) == FALSE

\* h_done when an invocation that leaves the worksheet as `sh` returns: the
\* first return is remembered, a later one is marked on it
returned(sh, chunkSize) ==
    IF h_done = {}
    THEN {[sheet |-> sh, chunkSize |-> chunkSize, start |-> h_start, again |-> FALSE]}
    ELSE {[d EXCEPT !.again = TRUE] : d \in h_done}

\* an engine without the check for empty input
isEmptyInput_Never(values) == FALSE

\* `if (!values || values.length === 0) return`
isEmptyInput(values) == Len(values) = 0

\* The synchronous head of processRangeInChunks / processItemsInChunks, up to
\* and including the first sink write it issues.
Invoke(chunkSizeOption, resumeFromChunk, resumedInfo) ==
    LET size == actualChunkSize(e_kind, chunkSizeOption, e_values, e_columns)
    IN  /\ h_resumed' = resumedInfo
        /\ h_resumeFromChunk' = resumeFromChunk
        /\ h_passed' = NoProgress
        /\ h_written' = {}
        /\ h_rows' = {}
        /\ h_onProgress' = <<>>
        /\ e_retries' = 0
        /\ UNCHANGED <<e_kind, e_values, e_columns, e_startRow, e_chunkSize,
                       e_maxRetries, sheet, storeThrows>>
        /\ IF isEmptyInput(e_values) \/ ~chunkLoopTerminates(e_values, size)
           THEN /\ e_pc' = IF isEmptyInput(e_values) THEN "resolved" ELSE "hung"
                /\ e_actual' = size
                /\ e_progress' = NoProgress
                /\ e_i' = 0
                /\ h_start' = 0
                /\ h_lastAttempt' = 0 - 1
                /\ h_inflight' = {}
                /\ h_done' = IF isEmptyInput(e_values) THEN returned(sheet, size)
                              ELSE h_done
                /\ h_loadedTotal' = 0
                /\ UNCHANGED <<store, h_saved>>
           ELSE \E getThrows, setThrows \in StoreCallThrows :
                LET total == Len(chunkRangeValues(e_values, size))
                    loaded == IF getThrows THEN NoProgress
                              ELSE loadProgress(store, OperationId)
                    created == newProgress(OperationId, total)
                    start == startChunkOf(resumeFromChunk, total)
                    escapes == storeErrorEscapes(getThrows)
                               \/ (loaded = NoProgress /\ storeErrorEscapes(setThrows))
                IN  /\ (loaded # NoProgress) => ~setThrows
                    /\ store' = IF loaded = NoProgress /\ ~setThrows
                                THEN saveProgress(store, created) ELSE store
                    /\ h_saved' = IF loaded = NoProgress /\ ~setThrows
                                  THEN created ELSE h_saved
                    /\ e_progress' = withTotalChunks(IF loaded = NoProgress THEN created
                                                      ELSE loaded, total)
                    /\ e_actual' = size
                    /\ e_i' = start
                    /\ h_start' = start
                    /\ h_lastAttempt' = IF escapes THEN 0 - 1 ELSE start
                    /\ h_inflight' = IF escapes THEN {} ELSE {start}
                    /\ h_done' = h_done
                    /\ h_loadedTotal' = loaded.totalChunks
                    /\ e_pc' = IF escapes THEN "storeError" ELSE "writing"

\* the caller's first call: resumeFromChunk is not supplied (0)
ProcessInChunks ==
    /\ e_pc = "idle"
    /\ Invoke(e_chunkSize, 0, NotResumed)
    /\ UNCHANGED notEngine

\* the sink applied the chunk and its promise resolves
SinkWriteResolves ==
    /\ e_pc = "writing"
    /\ sheet' = sinkWrite(e_kind, sheet, Chunks[e_i + 1], e_i, e_actual, e_startRow)
    /\ h_inflight' = {}
    /\ h_written' = h_written \cup {e_i}
    /\ h_rows' = h_rows \cup rowsOfChunk(e_i, e_actual, Len(e_values))
    /\ e_pc' = "written"
    /\ UNCHANGED <<e_kind, e_values, e_columns, e_startRow, e_chunkSize, e_maxRetries,
                   e_actual, e_progress, e_i, e_retries, store, h_start,
                   h_lastAttempt, h_onProgress, h_saved, h_resumed, h_done, storeThrows,
                   h_resumeFromChunk, h_loadedTotal, h_passed>>
    /\ UNCHANGED notEngine

\* after the await: updateProgress(progress, i + 1), onProgress(progress), i++,
\* then the next chunk's write, or updateProgress(.., 'completed') and
\* clearProgress when the loop is over
ContinueAfterWrite ==
    /\ e_pc = "written"
    /\ \E setThrows, lastSetThrows, removeThrows \in StoreCallThrows :
       LET progress == updatedProgress(e_progress, e_i + 1, Omitted)
           completed == updatedProgress(progress, Len(Chunks), Given("completed"))
           saved == IF setThrows THEN store ELSE saveProgress(store, progress)
           savedLast == IF lastSetThrows THEN saved ELSE saveProgress(saved, completed)
           lastEscapes == storeErrorEscapes(lastSetThrows)
                          \/ storeErrorEscapes(removeThrows)
       IN  IF storeErrorEscapes(setThrows)
           THEN /\ lastSetThrows = FALSE /\ removeThrows = FALSE
                /\ e_pc' = "storeError"
                /\ UNCHANGED <<e_i, e_retries, e_progress, store, h_saved, h_inflight,
                               h_lastAttempt, h_done, h_onProgress, h_passed>>
           ELSE
           /\ h_onProgress' = Append(h_onProgress, progress.completedChunks)
           /\ h_passed' = progress
           /\ e_i' = e_i + 1
           /\ e_retries' = 0
           /\ IF e_i + 1 < Len(Chunks)
              THEN /\ lastSetThrows = FALSE /\ removeThrows = FALSE
                   /\ e_progress' = progress
                   /\ store' = saved
                   /\ h_saved' = IF setThrows THEN h_saved ELSE progress
                   /\ h_inflight' = {e_i + 1}
                   /\ h_lastAttempt' = e_i + 1
                   /\ h_done' = h_done
                   /\ e_pc' = "writing"
              ELSE /\ e_progress' = completed
                   /\ store' = IF removeThrows THEN savedLast
                               ELSE clearProgress(savedLast, OperationId)
                   /\ h_saved' = IF ~lastSetThrows THEN completed
                                  ELSE IF setThrows THEN h_saved ELSE progress
                   /\ UNCHANGED <<h_inflight, h_lastAttempt>>
                   /\ h_done' = IF lastEscapes THEN h_done
                                ELSE returned(sheet, e_actual)
                   /\ e_pc' = IF lastEscapes THEN "storeError" ELSE "resolved"
    /\ UNCHANGED <<e_kind, e_values, e_columns, e_startRow, e_chunkSize, e_maxRetries,
                   e_actual, sheet, h_start, h_written, h_rows, h_resumed,
                   storeThrows, h_resumeFromChunk, h_loadedTotal>>
    /\ UNCHANGED notEngine

\* a loop that, when a chunk's retries are used up, goes on with the next chunk
SinkWriteRejects_SkipsChunk ==
    /\ e_pc = "writing"
    /\ IF /\ retriesExhausted(e_retries + 1, effectiveMaxRetries(e_maxRetries))
          /\ e_i + 1 < Len(Chunks)
       THEN /\ e_i' = e_i + 1
            /\ e_retries' = 0
            /\ h_inflight' = {e_i + 1}
            /\ h_lastAttempt' = e_i + 1
            /\ e_pc' = "writing"
       ELSE /\ e_retries' = e_retries + 1
            /\ h_inflight' = {}
            /\ e_pc' = IF retriesExhausted(e_retries + 1,
                                           effectiveMaxRetries(e_maxRetries))
                       THEN "rejected" ELSE "backoff"
            /\ UNCHANGED <<e_i, h_lastAttempt>>
    /\ UNCHANGED <<e_kind, e_values, e_columns, e_startRow, e_chunkSize, e_maxRetries,
                   e_actual, e_progress, sheet, store, h_start, h_written, h_rows,
                   h_onProgress, h_saved, h_resumed, h_done, storeThrows,
                   h_resumeFromChunk, h_loadedTotal, h_passed>>
    /\ UNCHANGED notEngine

\* the sink call rejects: withExponentialBackoff's catch.  The callback of
\* syncLargeDataset awaits a second sync (number format) after the rows were
\* written, so its rejection can follow an applied write.
SinkWriteRejects ==
    /\ e_pc = "writing"
    /\ \E applied \in BOOLEAN :
         /\ applied => e_kind = "items"
         /\ sheet' = IF applied
                     THEN sinkWrite(e_kind, sheet, Chunks[e_i + 1], e_i, e_actual,
                                    e_startRow)
                     ELSE sheet
    /\ h_inflight' = {}
    /\ e_retries' = e_retries + 1
    /\ e_pc' = IF retriesExhausted(e_retries + 1, effectiveMaxRetries(e_maxRetries))
               THEN "rejected" ELSE "backoff"
    /\ UNCHANGED <<e_kind, e_values, e_columns, e_startRow, e_chunkSize, e_maxRetries,
                   e_actual, e_progress, e_i, store, h_start, h_lastAttempt,
                   h_written, h_rows, h_onProgress, h_saved, h_resumed, h_done, storeThrows,
                   h_resumeFromChunk, h_loadedTotal, h_passed>>
    /\ UNCHANGED notEngine

\* the backoff wait is over: operation() is invoked again for the same chunk
BackoffEnds ==
    /\ e_pc = "backoff"
    /\ e_pc' = "writing"
    /\ h_inflight' = {e_i}
    /\ h_lastAttempt' = e_i
    /\ UNCHANGED <<e_kind, e_values, e_columns, e_startRow, e_chunkSize, e_maxRetries,
                   e_actual, e_progress, e_i, e_retries, sheet, store, h_start,
                   h_written, h_rows, h_onProgress, h_saved, h_resumed, h_done, storeThrows,
                   h_resumeFromChunk, h_loadedTotal, h_passed>>
    /\ UNCHANGED notEngine

\* the page is reloaded while the invocation runs: its memory is gone,
\* sessionStorage and the worksheet stay
Crash ==
    /\ e_pc \in {"writing", "written", "backoff"}
    /\ e_pc' = "crashed"
    /\ e_progress' = NoProgress
    /\ h_inflight' = {}
    /\ UNCHANGED <<e_kind, e_values, e_columns, e_startRow, e_chunkSize, e_maxRetries,
                   e_actual, e_i, e_retries, sheet, store, h_start, h_lastAttempt,
                   h_written, h_rows, h_onProgress, h_saved, h_resumed, h_done, storeThrows,
                   h_resumeFromChunk, h_loadedTotal, h_passed>>
    /\ UNCHANGED notEngine

\* chunks.length of an invocation with this chunkSize option (0: it does not
\* get as far as having chunks)
ChunkCountOf(chunkSizeOption) ==
    LET size == actualChunkSize(e_kind, chunkSizeOption, e_values, e_columns)
    IN  IF Len(e_values) > 0 /\ chunkLoopTerminates(e_values, size)
        THEN Len(chunkRangeValues(e_values, size)) ELSE 0

Ended == e_pc \in {"resolved", "rejected", "crashed", "storeError"}

\* the caller calls again with the same input and some resumeFromChunk
ProcessInChunksAgain ==
    /\ Ended
    \* any resumeFromChunk from a negative one to one past the last chunk; the
    \* large inputs are called again from chunk 0 only
    /\ \E resumeFromChunk \in ResumeFromChunkOptions :
         /\ resumeFromChunk <= ChunkCountOf(e_chunkSize)
         /\ Len(e_values) > MaxEngineRows => resumeFromChunk = 0
         /\ Invoke(e_chunkSize, resumeFromChunk, resumedFrom("caller", resumeFromChunk))
    /\ UNCHANGED notEngine

\* resumeLargeDatasetSync(operationId): returns when nothing is persisted or the
\* record is completed, else syncLargeDataset({operationId, resumeFromChunk:
\* progressData.completedChunks}) - options.chunkSize is not passed; when its
\* getItem throws, the catch block reports it and nothing else happens
ResumeLargeDatasetSync ==
    /\ Ended
    /\ e_kind = "items"
    /\ store[OperationId] # NoProgress
    /\ store[OperationId].status # "completed"
    /\ Invoke(Omitted, store[OperationId].completedChunks,
              resumedFrom("resumeLargeDatasetSync",
                          store[OperationId].completedChunks))
    /\ UNCHANGED notEngine

EngineNext ==
    \/ ProcessInChunks
    \/ SinkWriteResolves
    \/ ContinueAfterWrite
    \/ SinkWriteRejects
    \/ BackoffEnds
    \/ Crash
    \/ ProcessInChunksAgain
    \/ ResumeLargeDatasetSync

(***************************************************************************)
(* SpecQueue: queueUpdate, the debounce timer and processPendingUpdates.   *)
(* Time is relative: Tick lets TickMs milliseconds pass; a timer or a      *)
(* backoff wait that is due runs before more time passes.  A flush is one  *)
(* execution of processPendingUpdates; the timer whose firing started it   *)
(* names it.  With at most CHUNK_SIZE pending edits the branch that splits *)
(* the queue into sub-batches is not entered.                              *)
(***************************************************************************)
\* three edits are the fewest that can leave two timers armed: a third edit is
\* accepted, once a flush has ended, also when MaxEdits is 2
Edits == 1..Max(MaxEdits, 3)

NoFlush == [pc |-> "none", retries |-> 0, delay |-> 0, wait |-> 0, update |-> 0,
            k |-> 0]

NoLog == [batchCalls |-> 0, batched |-> {}, fallback |-> 0, single |-> <<>>]

\* "done": the flush resolved; "failed": it resolved after its catch block put
\* the error in the status message; "rejected": its promise rejected
InFlight(f) == q_flush[f].pc \notin {"none", "done", "failed", "rejected"}

FlushesInFlight == {f \in Edits : InFlight(f)}

Elements(seq) == {seq[x] : x \in DOMAIN seq}

QueueInit ==
    /\ pendingUpdates = <<>>
    /\ updateTimeoutId = {}
    /\ q_timers = <<>>
    /\ q_flush = [f \in Edits |-> NoFlush]
    /\ q_accepted = 0
    /\ q_failures = 0
    /\ q_age = <<>>
    /\ q_quiet = {}
    /\ q_carried = {}
    /\ q_seen = [f \in Edits |-> <<>>]
    /\ q_early = {}
    /\ q_log = [f \in Edits |-> NoLog]

\* queueUpdate(id, field, value): push, clearTimeout(updateTimeoutId),
\* updateTimeoutId = setTimeout(processPendingUpdates, UPDATE_BATCH_DELAY)
queueUpdate ==
    /\ \/ q_accepted < MaxEdits
       \/ /\ q_accepted < 3
          /\ \E f \in Edits : q_flush[f].pc \in {"done", "failed", "rejected"}
    /\ LET edit == q_accepted + 1
           cleared == [t \in (DOMAIN q_timers) \ updateTimeoutId |-> q_timers[t]]
       IN  /\ q_accepted' = edit
           /\ pendingUpdates' = Append(pendingUpdates, edit)
           /\ q_timers' = [t \in (DOMAIN cleared) \cup {edit} |->
                              IF t = edit THEN UPDATE_BATCH_DELAY ELSE cleared[t]]
           /\ updateTimeoutId' = {edit}
           /\ q_age' = [e \in (DOMAIN q_age) \cup {edit} |->
                           IF e = edit THEN 0 ELSE q_age[e]]
           /\ q_quiet' = IF FlushesInFlight = {} THEN q_quiet \cup {edit} ELSE q_quiet
    /\ UNCHANGED <<q_flush, q_failures, q_carried, q_seen, q_early, q_log>>
    /\ UNCHANGED notQueue

Due == \/ \E t \in DOMAIN q_timers : q_timers[t] = 0
       \/ \E f \in Edits : q_flush[f].pc \in {"single_backoff", "batch_backoff",
                                             "sequential_backoff"}
                           /\ q_flush[f].wait = 0

Tick ==
    /\ ~Due
    /\ \/ DOMAIN q_timers # {}
       \/ FlushesInFlight # {}
       \/ \E e \in DOMAIN q_age : q_age[e] < UPDATE_BATCH_DELAY
    /\ q_timers' = [t \in DOMAIN q_timers |-> Max(q_timers[t] - TickMs, 0)]
    /\ q_flush' = [f \in Edits |-> [q_flush[f] EXCEPT !.wait = Max(@ - TickMs, 0)]]
    /\ q_age' = [e \in DOMAIN q_age |-> Min(q_age[e] + TickMs, UPDATE_BATCH_DELAY)]
    /\ UNCHANGED <<pendingUpdates, updateTimeoutId, q_accepted, q_failures, q_quiet,
                   q_carried, q_seen, q_early, q_log>>
    /\ UNCHANGED notQueue

\* processPendingUpdates without its catch block
flushOutcome_NoCatch(threw) == IF threw THEN "rejected" ELSE "done"

\* how a flush whose transfer threw or not ends: the catch block of
\* processPendingUpdates puts the error in the status message and the async
\* function returns
flushOutcome(threw) == IF threw THEN "failed" ELSE "done"

\* a finally block that clears the queue and the handle only when nothing threw
FlushEnds_KeepsQueueOnFailure(f, threw) ==
    /\ pendingUpdates' = IF threw THEN pendingUpdates ELSE <<>>
    /\ updateTimeoutId' = IF threw THEN updateTimeoutId ELSE {}
    /\ q_flush' = [q_flush EXCEPT ![f] = [NoFlush EXCEPT !.pc = flushOutcome(threw)]]

\* the catch and finally blocks of processPendingUpdates
FlushEnds(f, threw) ==
    /\ pendingUpdates' = <<>>
    /\ updateTimeoutId' = {}
    /\ q_flush' = [q_flush EXCEPT ![f] = [NoFlush EXCEPT !.pc = flushOutcome(threw)]]

\* the next iteration of `for (const update of batch)` over the live array,
\* or the end of the flush when the array has no element k
SequentialStep(f, k, log) ==
    IF k < Len(pendingUpdates)
    THEN /\ q_flush' = [q_flush EXCEPT ![f] =
                           [pc |-> "sequential", retries |-> 0,
                            delay |-> INITIAL_RETRY_DELAY, wait |-> 0,
                            update |-> pendingUpdates[k + 1], k |-> k]]
         /\ q_carried' = q_carried \cup {pendingUpdates[k + 1]}
         /\ q_log' = [log EXCEPT ![f].single = Append(@, pendingUpdates[k + 1])]
         /\ UNCHANGED <<pendingUpdates, updateTimeoutId>>
    ELSE /\ FlushEnds(f, FALSE)
         /\ q_log' = log
         /\ UNCHANGED q_carried

\* withExponentialBackoff's catch inside flush f: wait, or give up with `onThrow`
CatchInFlush(f, backoffPc, onThrow) ==
    IF retriesExhausted(q_flush[f].retries + 1, MAX_RETRIES)
    THEN onThrow
    ELSE /\ q_flush' = [q_flush EXCEPT ![f].pc = backoffPc,
                                       ![f].retries = @ + 1,
                                       ![f].wait = q_flush[f].delay]
         /\ UNCHANGED <<pendingUpdates, updateTimeoutId, q_carried, q_log>>

\* the timer fires: processPendingUpdates() runs up to its first fetch
TimerFires(t) ==
    /\ t \in DOMAIN q_timers
    /\ q_timers[t] = 0
    /\ q_timers' = [u \in (DOMAIN q_timers) \ {t} |-> q_timers[u]]
    /\ IF Len(pendingUpdates) = 0
       THEN UNCHANGED <<pendingUpdates, updateTimeoutId, q_flush, q_carried, q_seen,
                        q_early, q_log>>
       ELSE /\ q_seen' = [q_seen EXCEPT ![t] = pendingUpdates]
            /\ q_early' = IF q_age[pendingUpdates[Len(pendingUpdates)]]
                              < UPDATE_BATCH_DELAY
                          THEN q_early \cup {t} ELSE q_early
            /\ q_flush' = [q_flush EXCEPT ![t] =
                              [pc |-> IF Len(pendingUpdates) = 1 THEN "single"
                                      ELSE "batch",
                               retries |-> 0, delay |-> INITIAL_RETRY_DELAY,
                               wait |-> 0,
                               update |-> IF Len(pendingUpdates) = 1
                                          THEN pendingUpdates[1] ELSE 0,
                               k |-> 0]]
            /\ q_carried' = q_carried \cup Elements(pendingUpdates)
            /\ q_log' = [q_log EXCEPT ![t] =
                            IF Len(pendingUpdates) = 1
                            THEN [@ EXCEPT !.single = <<pendingUpdates[1]>>]
                            ELSE [@ EXCEPT !.batchCalls = 1,
                                           !.batched = Elements(pendingUpdates)]]
            /\ UNCHANGED <<pendingUpdates, updateTimeoutId>>
    /\ UNCHANGED <<q_accepted, q_failures, q_age, q_quiet>>
    /\ UNCHANGED notQueue

\* POST /update-cell2 answered ok with success: the flush is over
SingleSucceeds(f) ==
    /\ q_flush[f].pc = "single"
    /\ FlushEnds(f, FALSE)
    /\ UNCHANGED <<q_timers, q_accepted, q_failures, q_age, q_quiet, q_carried,
                   q_seen, q_early, q_log>>
    /\ UNCHANGED notQueue

\* POST /update-cell2 failed (status, success: false, or network): retry or
\* give up; the error is caught by processPendingUpdates
SingleFails(f) ==
    /\ q_flush[f].pc = "single"
    /\ q_failures < MaxFailures
    /\ q_failures' = q_failures + 1
    /\ CatchInFlush(f, "single_backoff", FlushEnds(f, TRUE) /\ UNCHANGED <<q_carried, q_log>>)
    /\ UNCHANGED <<q_timers, q_accepted, q_age, q_quiet, q_seen, q_early>>
    /\ UNCHANGED notQueue

\* a backoff wait inside flush f is over: the operation is invoked again
BackoffWakes(f) ==
    /\ q_flush[f].pc \in {"single_backoff", "batch_backoff", "sequential_backoff"}
    /\ q_flush[f].wait = 0
    /\ \E jitter \in JitterPercent :
         q_flush' = [q_flush EXCEPT
            ![f].delay = nextDelay(@, MAX_RETRY_DELAY, jitter),
            ![f].pc = IF @ = "single_backoff" THEN "single"
                      ELSE IF @ = "batch_backoff" THEN "batch" ELSE "sequential"]
    \* the single and sequential paths resend the captured update, the batch
    \* path maps the live array again
    /\ q_carried' = IF q_flush[f].pc = "batch_backoff"
                    THEN q_carried \cup Elements(pendingUpdates)
                    ELSE q_carried \cup {q_flush[f].update}
    /\ q_log' = IF q_flush[f].pc = "batch_backoff"
                THEN [q_log EXCEPT ![f].batchCalls = @ + 1,
                                   ![f].batched = @ \cup Elements(pendingUpdates)]
                ELSE q_log
    /\ UNCHANGED <<pendingUpdates, updateTimeoutId, q_timers, q_accepted, q_failures,
                   q_age, q_quiet, q_seen, q_early>>
    /\ UNCHANGED notQueue

\* POST /batch-update-cells2 answered ok
BatchSucceeds(f) ==
    /\ q_flush[f].pc = "batch"
    /\ FlushEnds(f, FALSE)
    /\ UNCHANGED <<q_timers, q_accepted, q_failures, q_age, q_quiet, q_carried,
                   q_seen, q_early, q_log>>
    /\ UNCHANGED notQueue

\* the batch endpoint answered 404, or fetch threw a TypeError: fall back to
\* processSequentialUpdatesWithRetry(batch)
BatchUnavailable(f) ==
    /\ q_flush[f].pc = "batch"
    /\ SequentialStep(f, 0, [q_log EXCEPT ![f].fallback = q_log[f].batchCalls])
    /\ UNCHANGED <<q_timers, q_accepted, q_failures, q_age, q_quiet, q_seen, q_early>>
    /\ UNCHANGED notQueue

\* the batch endpoint answered another error status: retry or give up
BatchFails(f) ==
    /\ q_flush[f].pc = "batch"
    /\ q_failures < MaxFailures
    /\ q_failures' = q_failures + 1
    /\ CatchInFlush(f, "batch_backoff", FlushEnds(f, TRUE) /\ UNCHANGED <<q_carried, q_log>>)
    /\ UNCHANGED <<q_timers, q_accepted, q_age, q_quiet, q_seen, q_early>>
    /\ UNCHANGED notQueue

\* a sequential POST /update-cell2 was answered ok (success or not): next item
SequentialItemAnswered(f) ==
    /\ q_flush[f].pc = "sequential"
    /\ SequentialStep(f, q_flush[f].k + 1, q_log)
    /\ UNCHANGED <<q_timers, q_accepted, q_failures, q_age, q_quiet, q_seen, q_early>>
    /\ UNCHANGED notQueue

\* a sequential POST failed: retry it, or log and go on with the next item
SequentialItemFails(f) ==
    /\ q_flush[f].pc = "sequential"
    /\ q_failures < MaxFailures
    /\ q_failures' = q_failures + 1
    /\ CatchInFlush(f, "sequential_backoff",
                    SequentialStep(f, q_flush[f].k + 1, q_log))
    /\ UNCHANGED <<q_timers, q_accepted, q_age, q_quiet, q_seen, q_early>>
    /\ UNCHANGED notQueue

QueueNext ==
    \/ queueUpdate
    \/ Tick
    \/ \E t \in Edits : TimerFires(t)
    \/ \E f \in Edits : SingleSucceeds(f)
    \/ \E f \in Edits : SingleFails(f)
    \/ \E f \in Edits : BackoffWakes(f)
    \/ \E f \in Edits : BatchSucceeds(f)
    \/ \E f \in Edits : BatchUnavailable(f)
    \/ \E f \in Edits : BatchFails(f)
    \/ \E f \in Edits : SequentialItemAnswered(f)
    \/ \E f \in Edits : SequentialItemFails(f)

(***************************************************************************)
(* The four specifications : the variables of the others stay idle.        *)
(***************************************************************************)
(* SpecChange: the worksheet change handlers.  handleCellChange serves the *)
(* simple table (columns id, name, price; data.products rows below the     *)
(* header), handleComplexCellChange the table of COMPLEX_PRODUCT_FIELD_MAP. *)
(* A cell value is a number, a string or a boolean; a string is the tuple  *)
(* of its characters, so that the parsers work on what was typed.          *)
(***************************************************************************)
Num(n) == [t |-> "number", n |-> n, s |-> <<>>, b |-> FALSE, a |-> <<>>]
Str(s) == [t |-> "string", n |-> 0, s |-> s, b |-> FALSE, a |-> <<>>]
Bool(b) == [t |-> "boolean", n |-> 0, s |-> <<>>, b |-> b, a |-> <<>>]
Arr(a) == [t |-> "array", n |-> 0, s |-> <<>>, b |-> FALSE, a |-> a]
NaN == [t |-> "NaN", n |-> 0, s |-> <<>>, b |-> FALSE, a |-> <<>>]

DigitChars == <<"0", "1", "2", "3", "4", "5", "6", "7", "8", "9">>

IsDigit(c) == \E d \in DOMAIN DigitChars : DigitChars[d] = c

DigitValue(c) == (CHOOSE d \in DOMAIN DigitChars : DigitChars[d] = c) - 1

\* the longest prefix of digits
RECURSIVE digitPrefix(_)
digitPrefix(s) ==
    IF s = <<>> \/ ~IsDigit(Head(s)) THEN <<>>
    ELSE <<Head(s)>> \o digitPrefix(Tail(s))

RECURSIVE decimal(_)
decimal(ds) ==
    IF ds = <<>> THEN 0
    ELSE decimal(SubSeq(ds, 1, Len(ds) - 1)) * 10 + DigitValue(ds[Len(ds)])

\* parseFloat(string) on strings without blank, sign, point or exponent:
\* the number its leading digits spell, NaN when it does not start with one
parseFloatOfString(s) ==
    IF digitPrefix(s) = <<>> THEN NaN ELSE Num(decimal(digitPrefix(s)))

\* parseFloat(value): the argument is converted to a string first
parseFloat(value) ==
    IF value.t = "number" THEN value
    ELSE IF value.t = "string" THEN parseFloatOfString(value.s)
    ELSE NaN

\* parseInt(string), which on these strings reads the same leading digits
parseInt(s) == parseFloatOfString(s)

\* parseNumber(value): {} is undefined
parseNumber(value) ==
    IF value.t = "number" THEN Given(value)
    ELSE IF value.t = "string"
         THEN (IF parseFloat(value) = NaN THEN Omitted ELSE Given(parseFloat(value)))
         ELSE Omitted

trueBooleanValues ==
    {Bool(TRUE), Str(<<"t", "r", "u", "e">>), Str(<<"y", "e", "s">>), Num(1), Str(<<"1">>)}

falseBooleanValues ==
    {Bool(FALSE), Str(<<"f", "a", "l", "s", "e">>), Str(<<"n", "o">>), Num(0), Str(<<"0">>)}

parseBoolean(value) ==
    IF value \in trueBooleanValues THEN Given(Bool(TRUE))
    ELSE IF value \in falseBooleanValues THEN Given(Bool(FALSE))
    ELSE Omitted

\* value.split(','): the pieces between the commas
RECURSIVE split(_, _)
split(s, piece) ==
    IF s = <<>> THEN <<piece>>
    ELSE IF Head(s) = "," THEN <<piece>> \o split(Tail(s), <<>>)
    ELSE split(Tail(s), Append(piece, Head(s)))

\* parseStringArray(value): the non-empty pieces (no blanks to trim here)
parseStringArray(value) ==
    IF value.t = "string"
    THEN Arr(SelectSeq(split(value.s, <<>>), LAMBDA piece : piece # <<>>))
    ELSE Arr(<<>>)

\* dateRegex on a string without 'T': dddd-dd-dd
dateRegex(s) ==
    /\ Len(s) = 10
    /\ \A k \in {1, 2, 3, 4, 6, 7, 9, 10} : IsDigit(s[k])
    /\ s[5] = "-" /\ s[8] = "-"

\* !isNaN(Date.parse(s)) for a string the regex refused: NaN when it holds no
\* digit; what another string gives is left to the script engine
dateParses(s, engineAccepts) ==
    (\E k \in DOMAIN s : IsDigit(s[k])) /\ engineAccepts

parseDate(value, engineAccepts) ==
    IF value.t = "string" /\ (dateRegex(value.s) \/ dateParses(value.s, engineAccepts))
    THEN Given(value) ELSE Omitted

COMPLEX_PRODUCT_FIELD_MAP ==
    <<"id", "name", "category", "price", "quantity", "rating", "inStock",
      "dateAdded", "description", "tags", "color", "weight", "dimensions",
      "manufacturer", "countryOfOrigin", "warranty", "material", "sku", "barcode",
      "minOrderQuantity", "maxOrderQuantity", "discountPercentage", "taxRate",
      "shippingWeight", "shippingDimensions", "returnPolicy", "assemblyRequired",
      "batteryRequired", "batteriesIncluded", "waterproof", "heatResistant",
      "coldResistant", "uvResistant", "windResistant", "shockResistant",
      "dustResistant", "scratchResistant", "stainResistant", "fadeResistant",
      "rustResistant", "moldResistant", "fireResistant", "recyclable",
      "biodegradable", "energyEfficiencyRating", "noiseLevel", "powerConsumption",
      "certifications", "lastUpdated", "popularity">>

numericFields ==
    {"price", "quantity", "rating", "weight", "minOrderQuantity", "maxOrderQuantity",
     "discountPercentage", "taxRate", "shippingWeight", "powerConsumption",
     "popularity"}

booleanFields ==
    {"inStock", "assemblyRequired", "batteryRequired", "batteriesIncluded",
     "waterproof", "heatResistant", "coldResistant", "uvResistant", "windResistant",
     "shockResistant", "dustResistant", "scratchResistant", "stainResistant",
     "fadeResistant", "rustResistant", "moldResistant", "fireResistant",
     "recyclable", "biodegradable"}

dateFields == {"dateAdded", "lastUpdated"}

arrayFields == {"tags", "certifications"}

\* getFieldNameByColumnIndex(index): {} is undefined
getFieldNameByColumnIndex(index) ==
    IF index + 1 \in DOMAIN COMPLEX_PRODUCT_FIELD_MAP
    THEN Given(COMPLEX_PRODUCT_FIELD_MAP[index + 1]) ELSE Omitted

\* the product id read from column A of the changed row: {} when the cell
\* does not identify a product
productIdOf(productIdValue) ==
    IF productIdValue.t = "number" THEN Given(productIdValue.n)
    ELSE IF productIdValue.t = "string" /\ parseInt(productIdValue.s) # NaN
         THEN Given(parseInt(productIdValue.s).n)
         ELSE Omitted

\* the conversion handleComplexCellChange applies to the new value of a field:
\* {} when the handler returns without queueing
convertedValue(field, newValue, engineAccepts) ==
    IF field \in numericFields THEN parseNumber(newValue)
    ELSE IF field \in booleanFields THEN parseBoolean(newValue)
    ELSE IF field \in arrayFields THEN Given(parseStringArray(newValue))
    ELSE IF field \in dateFields THEN parseDate(newValue, engineAccepts)
    ELSE Given(newValue)

\* What the sheet holds.  Rows 1..c_products below the header (row index 0)
\* are the table, with the product id k in column A of row index k.  When the
\* changed row is below the table, its column A holds c_belowId: nothing, a
\* label or a number.
BelowIds == {Str(<<>>), Str(<<"s", "u", "m">>), Num(7)}

idCellAt(rowIndex) == IF rowIndex \in 1..c_products THEN Num(rowIndex) ELSE c_belowId

\* usedRange.rowCount once the change is in the sheet: the header and the
\* table, and further down to the changed row unless that row is empty
usedRowCount(products, idCell, rowIndex, newValue) ==
    Max(products + 1,
        IF newValue # Str(<<>>) \/ idCell # Str(<<>>) THEN rowIndex + 1 ELSE 0)

CellValues ==
    {Num(0), Num(1), Num(12), Bool(TRUE), Bool(FALSE)}
    \cup {Str(s) : s \in {<<>>, <<"1">>, <<"1", "2">>, <<"1", "2", "a">>, <<"a", "b">>,
                          <<"y", "e", "s">>, <<"a", ",", "b">>, <<"1", "/", "2">>,
                          <<"2", "0", "2", "4", "-", "0", "1", "-", "1", "5">>}}

\* column indices of the events: id, name, category or price, price, inStock,
\* dateAdded, tags, and the first column right of the complex table
ChangeColumns == {0, 1, 2, 3, 6, 7, 9, Len(COMPLEX_PRODUCT_FIELD_MAP)}

ChangeShapes == {<<1, 1>>, <<1, 2>>, <<2, 1>>}

ChangeInit ==
    /\ c_handler \in {"handleCellChange", "handleComplexCellChange"}
    /\ c_products \in 0..MaxProducts
    /\ c_belowId \in BelowIds
    /\ c_shape \in ChangeShapes
    /\ c_rowIndex \in 0..(MaxProducts + 1)
    /\ c_colIndex \in ChangeColumns
    /\ c_newValue \in CellValues
    /\ c_pc = "changed"
    /\ c_status = "none"
    /\ c_queued = <<>>
    /\ c_posted = <<>>

\* the handler returns without an update
Skip(status) ==
    /\ c_status' = status
    /\ UNCHANGED <<c_queued, c_posted>>

\* handleCellChange(event), with the POST of sendUpdateToApi
handleCellChange ==
    /\ c_pc = "changed"
    /\ c_handler = "handleCellChange"
    /\ c_pc' = "handled"
    /\ LET dataRowCount == c_products + 1
           productId == productIdOf(idCellAt(c_rowIndex))
           field == IF c_colIndex = 1 THEN "name" ELSE "price"
       IN  IF c_shape # <<1, 1>> THEN Skip("none")
           ELSE IF c_rowIndex = 0 THEN Skip("none")
           ELSE IF c_rowIndex > dataRowCount - 1 THEN Skip("none")
           ELSE IF c_colIndex = 0 THEN Skip("Product ID cannot be modified directly")
           ELSE IF c_colIndex > 2 THEN Skip("none")
           ELSE IF productId = Omitted THEN Skip("Cannot identify product ID")
           ELSE /\ c_posted' = Append(c_posted,
                        [id |-> ValueOr(productId, 0), field |-> field,
                         value |-> IF field = "price" THEN parseFloat(c_newValue)
                                   ELSE c_newValue])
                /\ c_status' = "Sending update to API"
                /\ UNCHANGED c_queued
    /\ UNCHANGED <<c_handler, c_products, c_belowId, c_shape, c_rowIndex, c_colIndex,
                   c_newValue>>
    /\ UNCHANGED notChange

\* handleComplexCellChange(event), up to and including queueUpdate
handleComplexCellChange ==
    /\ c_pc = "changed"
    /\ c_handler = "handleComplexCellChange"
    /\ c_pc' = "handled"
    /\ \E engineAccepts \in BOOLEAN :
       LET dataRowCount == usedRowCount(c_products, idCellAt(c_rowIndex), c_rowIndex,
                                         c_newValue)
           productId == productIdOf(idCellAt(c_rowIndex))
           field == getFieldNameByColumnIndex(c_colIndex)
           value == convertedValue(ValueOr(field, ""), c_newValue, engineAccepts)
       IN  IF c_shape # <<1, 1>> THEN Skip("none")
           ELSE IF c_rowIndex = 0 THEN Skip("none")
           ELSE IF c_rowIndex > dataRowCount - 1 THEN Skip("none")
           ELSE IF c_colIndex = 0 THEN Skip("Product ID cannot be modified directly")
           ELSE IF c_colIndex < 0 \/ c_colIndex >= Len(COMPLEX_PRODUCT_FIELD_MAP)
                THEN Skip("none")
           ELSE IF productId = Omitted THEN Skip("Cannot identify product ID")
           ELSE IF field = Omitted THEN Skip("none")
           ELSE IF value = Omitted THEN Skip("Invalid value")
           ELSE /\ c_queued' = Append(c_queued,
                        [id |-> ValueOr(productId, 0), field |-> ValueOr(field, ""),
                         value |-> ValueOr(value, NaN)])
                /\ c_status' = "Change queued"
                /\ UNCHANGED c_posted
    /\ UNCHANGED <<c_handler, c_products, c_belowId, c_shape, c_rowIndex, c_colIndex,
                   c_newValue>>
    /\ UNCHANGED notChange

ChangeNext ==
    \/ handleCellChange
    \/ handleComplexCellChange

(***************************************************************************)
PureIdle ==
    /\ p_fn = "none" /\ p_values = <<>> /\ p_chunkSize = 0 /\ p_totalRows = 0
    /\ p_columns = 0 /\ p_pc = "idle" /\ p_out = <<>>

RetryIdle ==
    /\ r_maxRetries = 0 /\ r_maxDelay = 0 /\ r_pc = "idle" /\ r_retries = 0
    /\ r_delay = 0
    /\ r_invocations = 0 /\ r_waits = 0 /\ r_thrown = <<>> /\ r_outcome = Pending

EngineIdle ==
    /\ e_kind = "none" /\ e_values = <<>> /\ e_columns = 0 /\ e_startRow = 0
    /\ e_chunkSize = 0 /\ e_maxRetries = 0 /\ e_pc = "off" /\ e_actual = 0
    /\ e_progress = NoProgress /\ e_i = 0 /\ e_retries = 0 /\ sheet = <<>>
    /\ store = [id \in OperationIds |-> NoProgress]
    /\ h_start = 0 /\ h_lastAttempt = 0 /\ h_inflight = {} /\ h_written = {}
    /\ h_rows = {} /\ h_onProgress = <<>> /\ h_saved = NoProgress /\ h_resumed = NotResumed
    /\ h_done = {} /\ storeThrows = FALSE
    /\ h_resumeFromChunk = 0 /\ h_loadedTotal = 0 /\ h_passed = NoProgress

QueueIdle ==
    /\ pendingUpdates = <<>> /\ updateTimeoutId = {} /\ q_timers = <<>>
    /\ q_flush = <<>> /\ q_accepted = 0 /\ q_failures = 0 /\ q_age = <<>> /\ q_quiet = {}
    /\ q_carried = {} /\ q_seen = <<>> /\ q_early = {} /\ q_log = <<>>

ChangeIdle ==
    /\ c_handler = "none" /\ c_products = 0 /\ c_belowId = Str(<<>>)
    /\ c_shape = <<1, 1>> /\ c_rowIndex = 0 /\ c_colIndex = 0
    /\ c_newValue = Str(<<>>) /\ c_pc = "off" /\ c_status = "none"
    /\ c_queued = <<>> /\ c_posted = <<>>

FormulaIdle == activeOperations = {} /\ a_now = 0 /\ a_calls = <<>>

FlushIdle ==
    /\ f_pending = <<>> /\ f_refused = {} /\ f_broken = {} /\ f_pc = "off"
    /\ f_chunks = <<>> /\ f_i = 0 /\ f_retries = 0 /\ f_item = 0 /\ f_seqCount = 0
    /\ f_successCount = 0 /\ f_totalProcessed = 0 /\ f_sent = <<>> /\ f_applied = 0
    /\ f_failed = {}

InitPure == PureInit /\ RetryIdle /\ EngineIdle /\ QueueIdle /\ ChangeIdle
    /\ FormulaIdle /\ FlushIdle

InitRetry == RetryInit /\ PureIdle /\ EngineIdle /\ QueueIdle /\ ChangeIdle
    /\ FormulaIdle /\ FlushIdle

Init == EngineInit /\ PureIdle /\ RetryIdle /\ QueueIdle /\ ChangeIdle
    /\ FormulaIdle /\ FlushIdle

InitQueue == QueueInit /\ PureIdle /\ RetryIdle /\ EngineIdle /\ ChangeIdle
    /\ FormulaIdle /\ FlushIdle

InitChange == ChangeInit /\ PureIdle /\ RetryIdle /\ EngineIdle /\ QueueIdle
    /\ FormulaIdle /\ FlushIdle

SpecPure == InitPure /\ [][PureNext]_vars

SpecRetry == InitRetry /\ [][RetryNext]_vars

Spec == Init /\ [][EngineNext]_vars

SpecQueue == InitQueue /\ [][QueueNext]_vars

SpecChange == InitChange /\ [][ChangeNext]_vars

\* a session that uses the engine or one that uses the update queue
InitEither ==
    /\ \/ EngineInit /\ QueueIdle
       \/ QueueInit /\ EngineIdle
    /\ PureIdle /\ RetryIdle /\ ChangeIdle /\ FormulaIdle /\ FlushIdle

\* the queue's steps exist only in the session that uses the queue
SpecEither == InitEither /\ [][EngineNext \/ (q_flush # <<>> /\ QueueNext)]_vars

(***************************************************************************)
(* SpecFormulas: the concurrency guard of applyFormulas and                *)
(* applyFormulasEnhanced.  Both compute operationId = `<name>_${Date.now()}`,*)
(* return at once when checkConcurrentOperations refuses it, and otherwise *)
(* run their body inside try / finally { releaseOperation(operationId) }.  *)
(* A call is made while earlier ones are suspended at an await, also by    *)
(* applyFormulasEnhanced, whose body calls applyFormulas.                  *)
(***************************************************************************)
\* a check that admits an operation while the set is at its limit
checkConcurrentOperations_OverLimit(active, operationId) ==
    IF operationId \in active
    THEN [ok |-> FALSE, active |-> active]
    ELSE [ok |-> TRUE, active |-> active \cup {operationId}]

\* the returned boolean and activeOperations after the call
checkConcurrentOperations(active, operationId) ==
    IF operationId \in active
    THEN [ok |-> FALSE, active |-> active]
    ELSE IF Cardinality(active) >= MAX_CONCURRENT_OPERATIONS
    THEN [ok |-> FALSE, active |-> active]
    ELSE [ok |-> TRUE, active |-> active \cup {operationId}]

releaseOperation(active, operationId) == active \ {operationId}

\* applyFormulas() or applyFormulasEnhanced() is called: up to the first await
\* inside the try block, or the early return
applyFormulasCalled ==
    \E c \in 1..MaxCalls, fn \in {"applyFormulas", "applyFormulasEnhanced"} :
       /\ a_calls[c].pc = "none"
       /\ c > 1 => a_calls[c - 1].pc # "none"
       /\ LET checked == checkConcurrentOperations(activeOperations, <<fn, a_now>>)
          IN  /\ activeOperations' = checked.active
              /\ a_calls' = [a_calls EXCEPT
                               ![c] = [pc |-> IF checked.ok THEN "running"
                                              ELSE "rejected",
                                       fn |-> fn, now |-> a_now]]
       /\ UNCHANGED a_now
       /\ UNCHANGED <<pureVars, retryVars, engineVars, queueVars, changeVars, flushVars>>

\* an admitted call leaves its try block: by the return at its end, by the
\* return of the cached path (applyFormulas only) or by the rethrow of its
\* catch block; the finally block runs in each case
applyFormulasEnds ==
    \E c \in 1..MaxCalls, exit \in {"returned", "cached", "threw"} :
       /\ a_calls[c].pc = "running"
       /\ exit = "cached" => a_calls[c].fn = "applyFormulas"
       /\ activeOperations' = releaseOperation(activeOperations,
                                               <<a_calls[c].fn, a_calls[c].now>>)
       /\ a_calls' = [a_calls EXCEPT ![c].pc = exit]
       /\ UNCHANGED a_now
       /\ UNCHANGED <<pureVars, retryVars, engineVars, queueVars, changeVars, flushVars>>

\* a millisecond passes
ClockTicks ==
    /\ a_now < MaxNow
    /\ a_now' = a_now + 1
    /\ UNCHANGED <<activeOperations, a_calls>>
    /\ UNCHANGED <<pureVars, retryVars, engineVars, queueVars, changeVars, flushVars>>

InitFormulas ==
    /\ activeOperations = {}
    /\ a_now = 0
    /\ a_calls = [c \in 1..MaxCalls |-> [pc |-> "none", fn |-> "", now |-> 0]]
    /\ PureIdle /\ RetryIdle /\ EngineIdle /\ QueueIdle /\ ChangeIdle /\ FlushIdle

SpecFormulas ==
    InitFormulas /\ [][applyFormulasCalled \/ applyFormulasEnds \/ ClockTicks]_vars

(***************************************************************************)
(* SpecFlush: processPendingUpdates when more than CHUNK_SIZE edits are    *)
(* pending.  The queue is cut into chunks; each chunk goes through         *)
(* processBatchWithRetry (POST /batch-update-cells2 inside                 *)
(* withExponentialBackoff; on 404 or a network error the updates of the    *)
(* chunk are posted one by one to /update-cell2, each inside its own       *)
(* withExponentialBackoff), and an error that leaves processBatchWithRetry *)
(* is caught per chunk.  The waits of withExponentialBackoff are part of   *)
(* the step that fails.  No edit arrives while the flush runs.             *)
(***************************************************************************)
otherThanFlush == <<pureVars, retryVars, engineVars, queueVars, changeVars, formulaVars>>

\* for (let i = 0; i < pendingUpdates.length; i += CHUNK_SIZE)
\*   chunks.push(pendingUpdates.slice(i, i + CHUNK_SIZE))
splitPending(pending) == chunkLoop(pending, CHUNK_SIZE, 0, <<>>)

\* the end of an iteration of the loop over chunks: successCount and
\* totalProcessed are updated and the next chunk, if any, is posted
nextSubBatch(successCount) ==
    /\ f_successCount' = f_successCount + successCount
    /\ f_totalProcessed' = f_totalProcessed + Len(f_chunks[f_i + 1])
    /\ f_i' = f_i + 1
    /\ f_retries' = 0
    /\ f_item' = 0
    /\ f_seqCount' = 0
    /\ IF f_i + 1 < Len(f_chunks)
       THEN f_pc' = "batch" /\ f_sent' = f_chunks[f_i + 2]
       ELSE f_pc' = "done" /\ f_sent' = <<>>

\* the end of an iteration of `for (const update of batch)`: the next update
\* is posted, or processSequentialUpdatesWithRetry returns { successCount }
nextItem(successCount) ==
    IF f_item + 1 < Len(f_chunks[f_i + 1])
    THEN /\ f_item' = f_item + 1
         /\ f_seqCount' = successCount
         /\ f_retries' = 0
         /\ f_sent' = <<f_chunks[f_i + 1][f_item + 2]>>
         /\ UNCHANGED <<f_pc, f_i, f_successCount, f_totalProcessed>>
    ELSE nextSubBatch(successCount)

\* the timer fires: the chunks are cut and the first one is posted
FlushLargeQueue ==
    /\ f_pc = "timer"
    /\ Len(f_pending) > CHUNK_SIZE
    /\ f_chunks' = splitPending(f_pending)
    /\ f_pc' = "batch"
    /\ f_sent' = splitPending(f_pending)[1]
    /\ UNCHANGED <<f_pending, f_refused, f_broken, f_i, f_retries, f_item, f_seqCount,
                   f_successCount, f_totalProcessed, f_applied, f_failed>>
    /\ UNCHANGED otherThanFlush

\* POST /batch-update-cells2 answers 200 with the number of edits applied:
\* return { successCount: result.successCount || batch.length }
SubBatchAnswered ==
    /\ f_pc = "batch"
    /\ LET batch == f_chunks[f_i + 1]
           result == Cardinality(Elements(batch) \ f_refused)
       IN  /\ f_applied' = f_applied + result
           /\ nextSubBatch(IF result # 0 THEN result ELSE Len(batch))
    /\ UNCHANGED <<f_pending, f_refused, f_broken, f_chunks, f_failed>>
    /\ UNCHANGED otherThanFlush

\* the batch endpoint answers 404 or fetch throws a TypeError: the updates of
\* the chunk are posted one by one
SubBatchUnavailable ==
    /\ f_pc = "batch"
    /\ f_pc' = "single"
    /\ f_item' = 0
    /\ f_seqCount' = 0
    /\ f_retries' = 0
    /\ f_sent' = <<f_chunks[f_i + 1][1]>>
    /\ UNCHANGED <<f_pending, f_refused, f_broken, f_chunks, f_i, f_successCount,
                   f_totalProcessed, f_applied, f_failed>>
    /\ UNCHANGED otherThanFlush

\* a flush that gives up when a chunk has used up its retries
SubBatchRejected_AbortsFlush ==
    /\ f_pc = "batch"
    /\ IF retriesExhausted(f_retries + 1, MAX_RETRIES)
       THEN /\ f_failed' = f_failed \cup {f_i}
            /\ f_pc' = "done"
            /\ f_sent' = <<>>
            /\ UNCHANGED <<f_i, f_retries, f_item, f_seqCount, f_successCount,
                           f_totalProcessed>>
       ELSE /\ f_retries' = f_retries + 1
            /\ UNCHANGED <<f_pc, f_i, f_item, f_seqCount, f_successCount,
                           f_totalProcessed, f_sent, f_failed>>
    /\ UNCHANGED <<f_pending, f_refused, f_broken, f_chunks, f_applied>>
    /\ UNCHANGED otherThanFlush

\* the batch endpoint answers another error: withExponentialBackoff posts the
\* chunk again, or rethrows and the catch of the chunk counts it as processed
SubBatchRejected ==
    /\ f_pc = "batch"
    /\ IF retriesExhausted(f_retries + 1, MAX_RETRIES)
       THEN /\ f_failed' = f_failed \cup {f_i}
            /\ nextSubBatch(0)
       ELSE /\ f_retries' = f_retries + 1
            /\ UNCHANGED <<f_pc, f_i, f_item, f_seqCount, f_successCount,
                           f_totalProcessed, f_sent, f_failed>>
    /\ UNCHANGED <<f_pending, f_refused, f_broken, f_chunks, f_applied>>
    /\ UNCHANGED otherThanFlush

\* POST /update-cell2 answers 200: if (result.success) successCount++
SubBatchItemAnswered ==
    /\ f_pc = "single"
    /\ LET update == f_chunks[f_i + 1][f_item + 1]
           success == IF update \in f_refused THEN 0 ELSE 1
       IN  /\ update \notin f_broken
           /\ f_applied' = f_applied + success
           /\ nextItem(f_seqCount + success)
    /\ UNCHANGED <<f_pending, f_refused, f_broken, f_chunks, f_failed>>
    /\ UNCHANGED otherThanFlush

\* POST /update-cell2 answers an error: withExponentialBackoff posts the update
\* again, or rethrows and the catch of the loop goes on with the next update
SubBatchItemRejected ==
    /\ f_pc = "single"
    /\ f_chunks[f_i + 1][f_item + 1] \in f_broken
    /\ IF retriesExhausted(f_retries + 1, MAX_RETRIES)
       THEN nextItem(f_seqCount)
       ELSE /\ f_retries' = f_retries + 1
            /\ UNCHANGED <<f_pc, f_i, f_item, f_seqCount, f_successCount,
                           f_totalProcessed, f_sent>>
    /\ UNCHANGED <<f_pending, f_refused, f_broken, f_chunks, f_applied, f_failed>>
    /\ UNCHANGED otherThanFlush

\* the queue holds 51 edits, or MaxSubBatches full chunks, or one edit more;
\* the server applies every edit, every second one or none, and its
\* single-edit endpoint works or fails for edit 2
InitFlush ==
    /\ \E n \in {CHUNK_SIZE + 1, CHUNK_SIZE * MaxSubBatches,
                CHUNK_SIZE * MaxSubBatches + 1} :
         /\ f_pending = [e \in 1..n |-> e]
         /\ f_refused \in {{}, {e \in 1..n : e % 2 = 1}, 1..n}
    /\ f_broken \in {{}, {2}}
    /\ f_pc = "timer"
    /\ f_chunks = <<>> /\ f_i = 0 /\ f_retries = 0 /\ f_item = 0 /\ f_seqCount = 0
    /\ f_successCount = 0 /\ f_totalProcessed = 0 /\ f_sent = <<>> /\ f_applied = 0
    /\ f_failed = {}
    /\ PureIdle /\ RetryIdle /\ EngineIdle /\ QueueIdle /\ ChangeIdle /\ FormulaIdle

SpecFlush ==
    InitFlush /\ [][\/ FlushLargeQueue
                    \/ SubBatchAnswered
                    \/ SubBatchUnavailable
                    \/ SubBatchRejected
                    \/ SubBatchItemAnswered
                    \/ SubBatchItemRejected]_vars

(***************************************************************************)
(*                              The claims                                 *)
(***************************************************************************)

\* C1: for every grid G (also the empty one) and every chunk size c > 0,
\* concatenating the chunks returned by chunkRangeValues(G, c) in order gives
\* exactly G.
C1_ConcatReconstructsGrid ==
    (p_fn = "chunk" /\ p_pc = "ret" /\ p_chunkSize > 0) => Concat(p_out) = p_values

\* C1 witness: a returned split of at least two chunks whose last chunk is shorter.
C1_Witness ==
    /\ p_fn = "chunk" /\ p_pc = "ret" /\ p_chunkSize > 1
    /\ Len(p_out) >= 2
    /\ Len(p_out[Len(p_out)]) < p_chunkSize
    /\ "a" \in {p_values[k] : k \in DOMAIN p_values}
    /\ "b" \in {p_values[k] : k \in DOMAIN p_values}

\* C2 (as claimed): when processRangeInChunks completes for a grid G with the
\* start cell at row R, sheet row R + r holds row r of G for every r.
C2_RowsLandAtStartRow ==
    (e_kind = "range" /\ e_pc = "resolved" /\ h_start = 0 /\ Len(e_values) > 0)
        => \A r \in 1..Len(e_values) :
              cellAt(sheet, e_startRow + r - 1) = e_values[r]

Running == e_pc \in {"writing", "written", "backoff"}

ContiguousFromStart ==
    /\ Cardinality(h_inflight) <= 1
    /\ \A j \in h_written : j >= h_start /\ \A k \in h_start..j : k \in h_written
    /\ \A j \in h_inflight : \A k \in h_start..(j - 1) : k \in h_written

\* C3: within one invocation sink writes are issued one at a time, the chunk
\* indices of successive attempts never decrease, chunk i + 1 is attempted only
\* after chunk i succeeded, and the chunks written form a contiguous range that
\* begins at the start chunk.
C3_SequentialInOrder ==
    [][Running =>
         /\ h_lastAttempt' >= h_lastAttempt
         /\ (h_inflight' # {} /\ h_inflight' # h_inflight) => h_inflight = {}
         /\ ContiguousFromStart']_vars

\* C3 witness: the third chunk of an invocation is being retried.
C3_Witness ==
    /\ e_pc = "writing" /\ e_retries >= 1
    /\ e_i >= h_start + 2
    /\ h_written = h_start..(e_i - 1)

\* the input rows of chunks k+1..N (1-based) of the interrupted invocation
RestOfInterrupted ==
    {r \in 1..Len(e_values) : r > h_resumed.completed * h_resumed.chunkSize}

\* C4: an operation of N chunks interrupted after k chunks (0 < k < N) and
\* resumed from its persisted progress (same operationId, data and chunk size,
\* resumeFromChunk = the persisted completedChunks) writes none of chunks 1..k
\* and, when the resumed run completes, has written exactly chunks k+1..N.
C4_ResumeWritesTheRest ==
    (/\ h_resumed # NotResumed
     /\ h_resumed.chunkSize = e_actual
     /\ 0 < h_resumed.completed
     /\ h_resumed.completed < h_resumed.totalChunks)
        => /\ h_rows \subseteq RestOfInterrupted
           /\ e_pc = "resolved" => h_rows = RestOfInterrupted

\* C4 witness: resumeLargeDatasetSync resumed an operation of 3 chunks that
\* was interrupted after its first chunk, and the resumed run completed.
C4_Witness ==
    /\ h_resumed.via = "resumeLargeDatasetSync"
    /\ h_resumed.chunkSize = e_actual
    /\ h_resumed.completed = 1
    /\ h_resumed.totalChunks = 3
    /\ e_pc = "resolved"
    /\ h_written = {1, 2}

\* C5: for every maxRetries >= 0 an operation that fails on every invocation is
\* invoked exactly maxRetries + 1 times and the rejection is the error thrown
\* by the last invocation.
C5_AlwaysFailingOperation ==
    r_pc = "rejected" =>
        /\ r_invocations = r_maxRetries + 1
        /\ Len(r_thrown) = r_invocations
        /\ r_outcome = [kind |-> "rejected", error |-> r_thrown[Len(r_thrown)]]
        /\ r_thrown[Len(r_thrown)] = r_invocations

\* C5 witness: a rejection after at least two backoff waits.
C5_Witness == r_pc = "rejected" /\ r_maxRetries >= 2 /\ r_waits >= 2

\* C6: every edit accepted by queueUpdate is eventually carried by a sink
\* call (single or batch); an edit queued while a flush is in flight is not
\* discarded when that flush finishes.  Stated as what the claim forbids: an
\* accepted edit is never in the state from which no sink call can carry it,
\* gone from pendingUpdates without having been carried.
C6_EveryEditIsCarried ==
    \A edit \in 1..q_accepted :
        edit \in Elements(pendingUpdates) \/ edit \in q_carried

\* C7: at most one flush (an execution of processPendingUpdates from its start
\* to the end of its finally block) is in flight at any time.
C7_AtMostOneFlushInFlight == Cardinality(FlushesInFlight) <= 1

\* C8: edits queued while no flush is in flight, with gaps shorter than the
\* debounce delay, get exactly one flush; it starts no earlier than the delay
\* after the last of them and sees them in arrival order.
C8_DebounceCollapses ==
    \A f \in Edits :
        (q_seen[f] # <<>> /\ Elements(q_seen[f]) \subseteq q_quiet)
        => /\ f \notin q_early
           /\ \A x, y \in DOMAIN q_seen[f] : x < y => q_seen[f][x] < q_seen[f][y]
           /\ \A g \in Edits \ {f} :
                Elements(q_seen[g]) \cap Elements(q_seen[f]) = {}

\* C9 (as claimed): without options.chunkSize the engine uses the chunk size of
\* calculateOptimalChunkSize; a grid of 1000 rows and 10 columns gives exactly
\* 2 chunks of 500 rows.
C9_OmittedChunkSizeIsOptimal ==
    (e_kind = "range" /\ e_chunkSize = Omitted /\ Len(e_values) > 0
     /\ (Running \/ e_pc = "resolved"))
        => /\ e_actual = calculateOptimalChunkSize(Len(e_values), e_columns)
           /\ (Len(e_values) = 1000 /\ e_columns = 10) =>
                 /\ Len(Chunks) = 2
                 /\ \A k \in 1..Len(Chunks) : Len(Chunks[k]) = 500

\* C10: for all totalRows > 0 and columnsPerRow > 0 calculateOptimalChunkSize
\* returns an integer within MIN_CHUNK_SIZE..MAX_CHUNK_SIZE that depends on
\* columnsPerRow only.
C10_WithinLimits ==
    (p_fn = "size" /\ p_pc = "ret") =>
        /\ p_out \in MIN_CHUNK_SIZE..MAX_CHUNK_SIZE
        /\ \A totalRows \in 1..(MaxTotalRows + 1000) :
              calculateOptimalChunkSize(totalRows, p_columns) = p_out

\* C10 witness: a shape so wide that the unclamped row count is below the
\* lower limit, and the result is the lower limit.
C10_Witness ==
    /\ p_fn = "size" /\ p_pc = "ret"
    /\ rowsPerChunk(p_columns) < MIN_CHUNK_SIZE
    /\ p_out = MIN_CHUNK_SIZE

\* C11 (as claimed): for every columnsPerRow > 0 the chunk size r returned by
\* calculateOptimalChunkSize keeps one chunk's estimated payload under the
\* ceiling: r * columnsPerRow * ESTIMATED_BYTES_PER_CELL <= MAX_PAYLOAD_SIZE_BYTES.
C11_PayloadUnderCeiling ==
    (p_fn = "size" /\ p_pc = "ret")
        => estimatePayloadSize(p_out, p_columns) <= MAX_PAYLOAD_SIZE_BYTES

\* C12 (as claimed): when the write of a chunk has failed maxRetries + 1 times
\* the engine rejects, no later chunk is written or attempted, onProgress was
\* not called for the failed chunk, the persisted progress is still there and
\* its completedChunks is the index of the failed chunk, so that an invocation
\* with resumeFromChunk equal to it restarts at the failed chunk.
C12_ExhaustedRetriesKeepProgress ==
    e_pc = "rejected" =>
        /\ e_retries = effectiveMaxRetries(e_maxRetries) + 1
        /\ h_inflight = {}
        /\ h_lastAttempt = e_i
        /\ \A j \in h_written : j < e_i
        /\ \A n \in DOMAIN h_onProgress : h_onProgress[n] <= e_i
        /\ store[OperationId] # NoProgress
        /\ store[OperationId].completedChunks = e_i
        /\ startChunkOf(store[OperationId].completedChunks, Len(Chunks)) = e_i

\* C14 (as claimed): while the progress record of an operationId exists, the
\* completedChunks that successive saves store for it never decreases, also
\* across invocations that load the persisted record and resume with any
\* resumeFromChunk.
C14_CompletedChunksNeverDecrease ==
    [][(store[OperationId] # NoProgress /\ store'[OperationId] # NoProgress)
          => store'[OperationId].completedChunks
                >= store[OperationId].completedChunks]_vars

\* the persisted record of the operationId is removed in this step
ProgressRemoved == store[OperationId] # NoProgress /\ store'[OperationId] = NoProgress

\* the latest record saved is completed, with completedChunks = totalChunks
CompletedWasSaved ==
    /\ h_saved'.status = "completed"
    /\ h_saved'.completedChunks = h_saved'.totalChunks

C15_RerunLeavesSameSheet ==
    (e_pc = "resolved" /\ h_start = 0)
        => \A d \in h_done : (d.start = 0 /\ d.chunkSize = e_actual) => d.sheet = sheet

\* C15 witness: a second run from chunk 0 over at least two chunks has
\* completed, with the chunk size of the first completed run.
C15_Witness ==
    /\ e_pc = "resolved" /\ h_start = 0 /\ Len(Chunks) >= 2
    /\ h_written = 0..(Len(Chunks) - 1)
    /\ \E d \in h_done : d.again /\ d.start = 0 /\ d.chunkSize = e_actual
                           /\ d.sheet = sheet

\* C16 (as claimed): splitting with a chunk size <= 0 fails fast with an
\* InvalidArgument error: the call terminates, and it ends by throwing, not by
\* returning chunks.
C16_NonPositiveChunkSizeFailsFast ==
    (p_fn = "chunk" /\ p_chunkSize <= 0 /\ p_pc # "call") => p_pc = "threw"


C18_FlushNeverRejects ==
    \A f \in Edits :
        /\ q_flush[f].pc # "rejected"
        /\ q_flush[f].pc \in {"sequential", "sequential_backoff"}
              => q_flush[f].retries <= MAX_RETRIES

\* a flush whose transfer failed MAX_RETRIES + 1 times has ended, resolved
C18_Witness ==
    \E f \in Edits :
        /\ q_flush[f].pc = "failed"
        /\ q_failures = MAX_RETRIES + 1
        /\ pendingUpdates = <<>>


\* C19: a flush that saw n pending edits, 2 <= n <= CHUNK_SIZE, and whose
\* (first) batch call was answered 404 calls the batch endpoint exactly once
\* and then sends the n edits one by one in arrival order, each with at most
\* MAX_RETRIES + 1 attempts; when it has ended, all n were sent, whichever of
\* them used up its retries.
C19_FallbackSendsEachInOrder ==
    \A f \in Edits :
        (Len(q_seen[f]) >= 2 /\ Len(q_seen[f]) <= CHUNK_SIZE /\ q_log[f].fallback = 1)
        => /\ q_log[f].batchCalls = 1
           /\ \A x \in DOMAIN q_log[f].single :
                x <= Len(q_seen[f]) => q_log[f].single[x] = q_seen[f][x]
           /\ q_flush[f].pc \in {"sequential", "sequential_backoff"}
                 => q_flush[f].retries <= MAX_RETRIES
           /\ ~InFlight(f) =>
                \A x \in DOMAIN q_seen[f] :
                    x <= Len(q_log[f].single) /\ q_log[f].single[x] = q_seen[f][x]

\* the flushes one of whose sink calls carried the edit
CarriersOf(edit) ==
    {f \in Edits : edit \in q_log[f].batched \/ edit \in Elements(q_log[f].single)}

\* C20: every queued edit is carried by the sink calls of at most one flush,
\* there by at most MAX_RETRIES + 1 batch calls and MAX_RETRIES + 1 single-item
\* calls, and once that flush has ended the edit is neither in the queue nor
\* in a call that is still to be made or answered.
C20_CarriedByAtMostOneFlush ==
    \A edit \in 1..q_accepted :
        /\ Cardinality(CarriersOf(edit)) <= 1
        /\ \A f \in CarriersOf(edit) :
             /\ q_log[f].batchCalls <= MAX_RETRIES + 1
             /\ q_flush[f].retries <= MAX_RETRIES
             /\ ~InFlight(f) =>
                  /\ edit \notin Elements(pendingUpdates)
                  /\ \A g \in FlushesInFlight : q_flush[g].update # edit


\* C21: when a flush ends, whether its transfer succeeded or threw, the
\* pending queue is empty and the stored timer handle is null.
C21_FlushEndClearsQueue ==
    [][\A f \in Edits :
         (InFlight(f) /\ q_flush'[f].pc \in {"done", "failed", "rejected"})
            => (pendingUpdates' = <<>> /\ updateTimeoutId' = {})]_vars

\* a flush whose transfer used up its retries has ended while an edit queued
\* during it was pending: the queue and the handle are cleared
C21_Witness ==
    /\ \E f \in Edits : q_flush[f].pc = "failed"
    /\ q_accepted >= 2
    /\ pendingUpdates = <<>>
    /\ updateTimeoutId = {}


\* C23: withExponentialBackoff returns the result of the first invocation that
\* succeeds (every earlier one threw), does not invoke the operation after a
\* success, and waits once before every invocation but the first: no wait at
\* all when the first invocation succeeds, invocations - 1 waits whenever an
\* invocation is in flight or the call has settled.
C23_ReturnsFirstSuccess ==
    /\ r_pc = "resolved" =>
         /\ r_outcome = [kind |-> "resolved", value |-> r_invocations]
         /\ r_thrown = [k \in 1..(r_invocations - 1) |-> k]
         /\ r_invocations = 1 => r_waits = 0
    /\ r_pc \in {"operation", "resolved", "rejected"} => r_waits = r_invocations - 1
    /\ r_pc = "waiting" => r_waits = r_invocations

\* the third invocation succeeded after two failures and two waits
C23_Witness ==
    /\ r_pc = "resolved"
    /\ r_invocations = 3
    /\ r_waits = 2
    /\ r_outcome.value = 3


\* C24: for a non-empty input of N chunks and any integer resumeFromChunk the
\* first chunk written has index max(0, min(resumeFromChunk, N - 1)) and the
\* engine goes on through chunk N - 1; the persisted record, adopted or not,
\* has no part in it.
C24_StartChunkFromOption ==
    (Len(e_values) > 0 /\ (Running \/ e_pc \in {"resolved", "rejected"}))
        => /\ h_start = Max(0, Min(h_resumeFromChunk, Len(Chunks) - 1))
           /\ \A j \in h_written \cup h_inflight : j >= h_start
           /\ h_written # {} => h_start \in h_written
           /\ e_pc = "resolved" => h_written = h_start..(Len(Chunks) - 1)

\* an invocation given a resumeFromChunk beyond the last chunk adopted a
\* persisted record and wrote the last chunk only
C24_Witness ==
    /\ e_pc = "resolved"
    /\ Len(Chunks) >= 2
    /\ h_resumeFromChunk >= Len(Chunks)
    /\ h_loadedTotal > 0
    /\ h_written = {Len(Chunks) - 1}


\* a progress record whose completedChunks lies within 0..totalChunks
WithinTotal(progress) ==
    progress # NoProgress =>
        (0 <= progress.completedChunks /\ progress.completedChunks <= progress.totalChunks)

\* C25: every progress record that is persisted or passed to onProgress has
\* 0 <= completedChunks <= totalChunks, also when the engine adopted a record
\* whose completedChunks or totalChunks exceeds the chunk count of the grid it
\* is given now.
C25_CompletedWithinTotal ==
    /\ WithinTotal(h_saved)
    /\ WithinTotal(h_passed)
    /\ WithinTotal(store[OperationId])

\* the engine adopted a record of more chunks than the grid has now, wrote a
\* chunk, persisted the count and passed it to onProgress
C25_Witness ==
    /\ e_pc = "writing"
    /\ h_passed # NoProgress
    /\ Len(Chunks) >= 2
    /\ h_loadedTotal > Len(Chunks)
    /\ h_saved = h_passed
    /\ store[OperationId] = h_saved

\* C26: an engine invocation on a non-empty input that has ended leaves its
\* progress record in a terminal status: the last record it persisted has
\* status completed when every chunk was written and status failed when a
\* chunk used up its retries, and no record with status in_progress stays in
\* the store.
C26_TerminalStatusRecorded ==
    (Len(e_values) > 0 /\ e_pc \in {"resolved", "rejected"} /\ ~storeThrows)
        => /\ h_saved.status = IF e_pc = "resolved" THEN "completed" ELSE "failed"
           /\ store[OperationId] # NoProgress
                 => store[OperationId].status # "in_progress"

\* what C27 says of onProgress: the values passed so far are h_start + 1, ...,
\* one per written chunk, none yet for a chunk whose continuation has not run;
\* each record passed is in_progress and is the stored one when the next write
\* is in flight; a run that resolved made Len(Chunks) - h_start calls
OnProgressFollowsWrites ==
    (Len(e_values) > 0 /\ (Running \/ e_pc \in {"resolved", "rejected"}))
        => /\ h_onProgress = [k \in 1..(e_i - h_start) |-> h_start + k]
           /\ Cardinality(h_written) =
                 Len(h_onProgress) + (IF e_pc = "written" THEN 1 ELSE 0)
           /\ e_pc = "written" => e_i \in h_written
           /\ h_passed # NoProgress =>
                 /\ h_passed.completedChunks = h_onProgress[Len(h_onProgress)]
                 /\ h_passed.status = "in_progress"
                 /\ h_saved.completedChunks = h_passed.completedChunks
                 /\ e_pc \in {"writing", "backoff", "rejected"}
                       => store[OperationId] = h_passed
           /\ e_pc = "writing" => h_inflight = {h_start + Len(h_onProgress)}
           /\ e_pc = "resolved" => Len(h_onProgress) = Len(Chunks) - h_start

FreshFromZero ==
    /\ Len(e_values) > 0
    /\ e_pc \in {"writing", "written", "backoff", "rejected", "crashed"}
    /\ h_loadedTotal = 0
    /\ h_start = 0

\* C28: for an operation started fresh at chunk 0 with a working store, the
\* persisted completedChunks c and the number w of chunks whose write has
\* succeeded satisfy c <= w <= c + 1 at every moment until the record is
\* removed.
C28_PersistedLagsByAtMostOne ==
    (~storeThrows /\ FreshFromZero)
        => /\ store[OperationId] # NoProgress
           /\ store[OperationId].completedChunks <= Cardinality(h_written)
           /\ Cardinality(h_written) <= store[OperationId].completedChunks + 1

\* the second chunk's write has succeeded and the store still says 1
C28_Witness ==
    /\ ~storeThrows
    /\ FreshFromZero
    /\ e_pc = "written"
    /\ Cardinality(h_written) = 2
    /\ store[OperationId].completedChunks = 1

\* C29: the engine never writes a sheet row above the row of the start cell:
\* with start cell 'A2' the header row, written to row 1 before the chunked
\* transfer starts, holds the headers throughout the transfer and after it.
C29_HeaderRowSurvives ==
    \A r \in 1..(e_startRow - 1) : cellAt(sheet, r) = HeaderRow

\* the invocation adopted a record whose totalChunks is not the chunk count
AdoptedOtherTotal ==
    /\ Len(e_values) > 0
    /\ e_pc \in {"writing", "written", "backoff", "resolved", "rejected"}
    /\ h_loadedTotal # 0
    /\ h_loadedTotal # Len(Chunks)

\* C30: when the engine adopts a persisted record whose totalChunks differs
\* from the current number of chunks, every record it persists or passes to
\* onProgress afterwards has totalChunks equal to the current number of chunks.
C30_TotalChunksOverwritten ==
    (AdoptedOtherTotal /\ h_passed # NoProgress)
        => /\ h_passed.totalChunks = Len(Chunks)
           /\ h_saved.totalChunks = Len(Chunks)
           /\ store[OperationId] # NoProgress
                 => store[OperationId].totalChunks = Len(Chunks)

\* a record of three chunks was adopted for a grid of two; after the first
\* chunk the stored record and the one given to onProgress say two
C30_Witness ==
    /\ AdoptedOtherTotal
    /\ e_pc = "writing"
    /\ h_loadedTotal = 3
    /\ Len(Chunks) = 2
    /\ h_passed.totalChunks = 2
    /\ store[OperationId] = h_passed

\* the field a change in this column is about ("" when the column has none)
ChangedField ==
    IF c_handler = "handleCellChange"
    THEN (IF c_colIndex = 1 THEN "name" ELSE IF c_colIndex = 2 THEN "price" ELSE "")
    ELSE ValueOr(getFieldNameByColumnIndex(c_colIndex), "")

\* the new value cannot be read as what the field holds, on the most lenient
\* reading: for a number neither a number nor a string that starts with a
\* digit, for a boolean none of the accepted spellings, for a date neither a
\* yyyy-mm-dd string nor a string with a digit in it
FailsValidation ==
    \/ /\ ChangedField \in numericFields
       /\ c_newValue.t # "number"
       /\ ~(c_newValue.t = "string" /\ c_newValue.s # <<>> /\ IsDigit(c_newValue.s[1]))
    \/ /\ ChangedField \in booleanFields
       /\ c_newValue \notin trueBooleanValues \cup falseBooleanValues
    \/ /\ ChangedField \in dateFields
       /\ ~(c_newValue.t = "string" /\ \E k \in DOMAIN c_newValue.s : IsDigit(c_newValue.s[k]))

\* the columns of the table the handler serves
TableColumns ==
    IF c_handler = "handleCellChange" THEN 0..2
    ELSE 0..(Len(COMPLEX_PRODUCT_FIELD_MAP) - 1)

\* C22: a worksheet change event never leads to a queued update or an API
\* update call when it covers more than one cell, lies in the header row, lies
\* in the ID column, lies below the data table, lies outside the table's
\* columns, or carries a value that fails the field's number, boolean or date
\* validation.
C22_RejectedChangeSendsNothing ==
    (/\ c_pc = "handled"
     /\ \/ c_shape # <<1, 1>>
        \/ c_rowIndex = 0
        \/ c_colIndex = 0
        \/ c_rowIndex > c_products
        \/ c_colIndex \notin TableColumns
        \/ FailsValidation)
        => (c_queued = <<>> /\ c_posted = <<>>)

\* C33: a flush that finds exactly one pending edit makes no batch call and
\* invokes the single-item transfer at most MAX_RETRIES + 1 times: a POST is
\* in flight only as attempt retries + 1 <= MAX_RETRIES + 1, each failed
\* attempt (HTTP error or success = false) but the last is followed by one
\* more, the flush gives up only after attempt MAX_RETRIES + 1, and it ends
\* at the first attempt that succeeds, after which it sends nothing.
C33_SingleEditFlush ==
    /\ [](\A f \in Edits :
            Len(q_seen[f]) = 1 =>
               /\ q_log[f].batchCalls = 0
               /\ q_log[f].single = q_seen[f]
               /\ q_flush[f].pc \in {"none", "single", "single_backoff", "done", "failed"}
               /\ q_flush[f].retries <= MAX_RETRIES)
    /\ [][\A f \in Edits :
            (Len(q_seen[f]) = 1 /\ q_flush'[f] # q_flush[f]) =>
               \/ /\ q_flush[f].pc = "single"
                  /\ \/ q_flush'[f].pc = "done"
                     \/ /\ q_flush'[f].pc = "single_backoff"
                        /\ q_flush'[f].retries = q_flush[f].retries + 1
                     \/ /\ q_flush'[f].pc = "failed"
                        /\ q_flush[f].retries = MAX_RETRIES
                        /\ q_failures' = q_failures + 1
               \/ /\ q_flush[f].pc = "single_backoff"
                  /\ \/ /\ q_flush'[f].pc = "single"
                        /\ q_flush'[f].retries = q_flush[f].retries
                     \/ q_flush'[f] = [q_flush[f] EXCEPT !.wait = q_flush'[f].wait]]_vars

\* the only edit's flush gave up after its fourth attempt failed
C33_Witness ==
    \E f \in Edits : /\ q_seen[f] = <<1>>
                     /\ q_flush[f].pc = "failed"
                     /\ q_failures = MAX_RETRIES + 1
                     /\ q_accepted = 1
                     /\ q_log[f].batchCalls = 0

\* C39: at most one debounce timer is armed at any time: when queueUpdate arms
\* a new timer, every timer armed before has fired or been cancelled.
C39_AtMostOneTimerArmed == Cardinality(DOMAIN q_timers) <= 1

\* a timer that is no longer armed although no later queueUpdate cancelled it
TimerFired(t) ==
    /\ t \in DOMAIN q_timers
    /\ t \notin DOMAIN q_timers'
    /\ q_accepted' = q_accepted

\* C40: empty input is a no-op.  An engine invocation on an empty grid or list
\* returns successfully without a sink write or an onProgress call and leaves
\* the sheet and every persisted progress record as they were; a debounce
\* timer that fires on an empty queue starts no flush and makes no sink call.
C40_EmptyInputIsNoOp ==
    /\ []((e_pc \notin {"off", "idle"} /\ Len(e_values) = 0)
            => /\ e_pc = "resolved"
               /\ h_inflight = {} /\ h_lastAttempt = 0 - 1 /\ h_written = {}
               /\ h_onProgress = <<>> /\ h_passed = NoProgress
               /\ h_saved = NoProgress)
    /\ [][(e_pc # "off" /\ Len(e_values) = 0) => (store' = store /\ sheet' = sheet)]_vars
    /\ [][\A t \in Edits :
            (q_flush # <<>> /\ TimerFired(t) /\ pendingUpdates = <<>>)
               => /\ q_flush' = q_flush /\ q_log' = q_log /\ q_carried' = q_carried
                  /\ pendingUpdates' = <<>>]_vars

\* an invocation on an empty input returned and the record an earlier
\* operation left under the operationId is still stored
C40_Witness ==
    /\ e_pc = "resolved"
    /\ Len(e_values) = 0
    /\ h_done # {}
    /\ store[OperationId] # NoProgress
    /\ store[OperationId].completedChunks > 0

\* C34: for every initialDelay and maxDelay, each delay that
\* withExponentialBackoff waits before a retry is at most maxDelay.
C34_WaitWithinMaxDelay == r_pc = "waiting" => r_delay <= r_maxDelay

\* the sink writes the running invocation may still make, the one in flight
\* included: (N - i) * (maxRetries + 1) less the failed attempts at chunk i
WriteBudget ==
    (Len(Chunks) - e_i) * (ValueOr(e_maxRetries, MAX_RETRIES) + 1) - e_retries

\* C35: if every sink write settles, an engine invocation over N chunks that
\* starts at chunk s terminates, by success or by rejection, after at most
\* (N - s) * (maxRetries + 1) sink writes: its first write has that budget,
\* every write has a budget of at least one, every later write has a smaller
\* budget than the write before it, and the invocation leaves its loop only by
\* resolving or rejecting (or by the page being reloaded).
C35_BoundedSinkWrites ==
    /\ [](e_pc = "writing" =>
            /\ WriteBudget >= 1
            /\ WriteBudget <= (Len(Chunks) - h_start)
                                 * (ValueOr(e_maxRetries, MAX_RETRIES) + 1))
    /\ [][(e_pc \notin {"writing", "written", "backoff"} /\ e_pc' = "writing")
             => WriteBudget' = (Len(Chunks)' - h_start')
                                  * (ValueOr(e_maxRetries', MAX_RETRIES) + 1)]_vars
    /\ [][(e_pc = "written" /\ e_pc' = "writing") => WriteBudget' < WriteBudget]_vars
    /\ [][(e_pc = "writing" /\ e_pc' = "backoff") => WriteBudget' < WriteBudget]_vars
    /\ [][(e_pc = "backoff" /\ e_pc' = "writing") => WriteBudget' = WriteBudget]_vars
    /\ [][(e_pc = "writing" /\ e_pc' = "written") => WriteBudget' = WriteBudget]_vars
    /\ [][(e_pc \in {"writing", "written", "backoff"}
            /\ e_pc' \notin {"writing", "written", "backoff"})
             => e_pc' \in {"resolved", "rejected", "crashed", "storeError"}]_vars

\* the last chunk's last allowed write is in flight after every earlier write
\* of the invocation used all its retries but the last
C35_Witness ==
    /\ e_pc = "writing"
    /\ WriteBudget = 1
    /\ e_retries >= 1
    /\ h_start = 0
    /\ Len(Chunks) >= 2

InvocationStarts ==
    /\ e_pc \notin {"writing", "written", "backoff"}
    /\ e_pc' \in {"writing", "storeError"}

\* createProgressTracker(id, n), called because nothing is stored under id,
\* leaves the new record in the store
CreatedIsStored ==
    (InvocationStarts /\ store[OperationId] = NoProgress)
        => store'[OperationId] = [operationId |-> OperationId,
                                  totalChunks |-> Len(Chunks)',
                                  completedChunks |-> 0,
                                  status |-> "in_progress"]

\* loadProgress(id) hands the invocation the stored record, or not-found
LoadedIsStored ==
    InvocationStarts
        => /\ h_loadedTotal' = store[OperationId].totalChunks
           /\ store[OperationId] # NoProgress
                 => e_progress' = withTotalChunks(store[OperationId], Len(Chunks)')

\* what is stored under id is the record of the latest save, or nothing once
\* the completed operation was cleared
StoredIsLastSaved ==
    h_saved # NoProgress
        => \/ store[OperationId] = h_saved
           \/ h_saved.status = "completed" /\ store[OperationId] = NoProgress

\* a step that saves nothing leaves the stored record as it is
StoreKept == h_saved' = h_saved => store'[OperationId] = store[OperationId]

AdmittedCalls == {c \in DOMAIN a_calls : a_calls[c].pc = "running"}

\* the operationId a call computed
IdOfCall(c) == <<a_calls[c].fn, a_calls[c].now>>

\* C38: activeOperations holds exactly the ids of the applyFormulas /
\* applyFormulasEnhanced calls that passed checkConcurrentOperations and have
\* not finished: never more than MAX_CONCURRENT_OPERATIONS, one id per such
\* call, empty when no call is running; a rejected call leaves the set as it
\* was, and an admitted call removes its id by whichever way it ends.
C38_ActiveOperationsAreTheRunningCalls ==
    /\ [](/\ activeOperations = {IdOfCall(c) : c \in AdmittedCalls}
          /\ Cardinality(activeOperations) = Cardinality(AdmittedCalls)
          /\ Cardinality(activeOperations) <= MAX_CONCURRENT_OPERATIONS
          /\ AdmittedCalls = {} => activeOperations = {})
    /\ [][\A c \in DOMAIN a_calls :
            /\ (a_calls[c].pc = "none" /\ a_calls'[c].pc = "rejected")
                  => activeOperations' = activeOperations
            /\ (a_calls[c].pc = "none" /\ a_calls'[c].pc = "running")
                  => /\ IdOfCall(c)' \notin activeOperations
                     /\ activeOperations' = activeOperations \cup {IdOfCall(c)'}
            /\ (a_calls[c].pc = "running" /\ a_calls'[c].pc # "running")
                  => /\ a_calls'[c].pc \in {"returned", "cached", "threw"}
                     /\ IdOfCall(c) \in activeOperations
                     /\ activeOperations' = activeOperations \ {IdOfCall(c)}]_vars

\* three calls are running, a fourth was refused, and after one of the three
\* had ended by a thrown error none is left in the set that no longer runs
C38_Witness ==
    /\ Cardinality(activeOperations) = MAX_CONCURRENT_OPERATIONS - 1
    /\ \E c \in DOMAIN a_calls : a_calls[c].pc = "rejected"
                                 /\ IdOfCall(c) \notin activeOperations
    /\ \E c \in DOMAIN a_calls : a_calls[c].pc = "threw"

\* the edits of sub-batch i (0-based) of a queue of n edits cut at CHUNK_SIZE
SubBatchEdits(i, n) ==
    [x \in 1..(Min((i + 1) * CHUNK_SIZE, n) - i * CHUNK_SIZE) |-> i * CHUNK_SIZE + x]

\* C31: a flush with more than 50 pending edits splits them in arrival order
\* into consecutive sub-batches of at most 50 edits, all but the last of
\* exactly 50; it processes the sub-batches one after another (every request in
\* flight carries edits of sub-batch i only, and i only ever moves to i + 1),
\* and after a sub-batch has used up its retries it goes on with the next one,
\* so that the flush ends only after every sub-batch was processed.
C31_SubBatchesInOrder ==
    /\ [](f_pc \in {"batch", "single", "done"} =>
            /\ Len(f_pending) > CHUNK_SIZE
            /\ Len(f_chunks) = (Len(f_pending) + CHUNK_SIZE - 1) \div CHUNK_SIZE
            /\ \A k \in 1..Len(f_chunks) :
                  /\ f_chunks[k] = SubBatchEdits(k - 1, Len(f_pending))
                  /\ Len(f_chunks[k]) <= CHUNK_SIZE
                  /\ k < Len(f_chunks) => Len(f_chunks[k]) = CHUNK_SIZE
            /\ Concat(f_chunks) = f_pending)
    /\ [](f_pc = "batch" => (f_i < Len(f_chunks) /\ f_sent = f_chunks[f_i + 1]))
    /\ [](f_pc = "single" =>
            /\ f_i < Len(f_chunks)
            /\ f_item < Len(f_chunks[f_i + 1])
            /\ f_sent = <<f_chunks[f_i + 1][f_item + 1]>>)
    /\ [](f_pc = "done" =>
            /\ f_i = Len(f_chunks)
            /\ f_totalProcessed = Len(f_pending)
            /\ f_sent = <<>>)
    /\ [](\A k \in f_failed : k < f_i)
    /\ [][f_i' = f_i \/ (f_i' = f_i + 1 /\ f_pc \in {"batch", "single"})]_vars
    /\ [][(f_failed' # f_failed)
            => /\ f_failed' = f_failed \cup {f_i}
               /\ f_i' = f_i + 1
               /\ f_i + 1 < Len(f_chunks)
                     => (f_pc' = "batch" /\ f_sent' = f_chunks[f_i + 2])]_vars

\* the first sub-batch used up its retries and the flush ended after the
\* server had answered the later ones
C31_Witness ==
    /\ f_pc = "done"
    /\ f_failed = {0}
    /\ Len(f_chunks) = 3
    /\ Len(f_chunks[3]) = 1
    /\ f_applied > CHUNK_SIZE

\* C32: the success count a flush reports equals the number of edits the sink
\* reported as applied - the successCount of each answered batch call plus the
\* single-edit results with success = true - so a batch response that reports
\* 0 successes adds 0, and the count never exceeds the number of edits in the
\* flush.
C32_ReportedCountIsSinkCount ==
    f_pc = "done" =>
       /\ f_successCount = f_applied
       /\ f_successCount <= Len(f_pending)

====
